---- MODULE Spec2Model ----
(***************************************************************************)
(* Model of the price book export of sf-data-service                       *)
(* (src/fetch_every_5min/files/scripts/app.py): schema discovery, the      *)
(* currency probe, the catalog preload, the streaming pass that builds the *)
(* nested index and the flat file together, the derived tab-delimited file *)
(* and the sorted JSON document.                                           *)
(*                                                                         *)
(* Texts are sequences whose elements are single characters or opaque runs *)
(* of ordinary characters that the code never looks into ("Entry.").       *)
(* Python values are records with a kind; dicts with run-time keys are     *)
(* functions whose domain is a set of texts.                               *)
(***************************************************************************)
EXTENDS Integers, Sequences, FiniteSets, TLC

(* ------------------------------ bounds --------------------------------- *)
\* longest record stream the pass consumes
MaxRecords == 2
\* longest cell text drawn over the special characters
MaxLen == 2

(* --------------------------- Python values ----------------------------- *)
\* a dict holds its items (d) and its keys in insertion order (o)
None == [k |-> "none", b |-> FALSE, s |-> <<>>, d |-> <<>>, o |-> <<>>]
Bool(x) == [k |-> "bool", b |-> x, s |-> <<>>, d |-> <<>>, o |-> <<>>]
Str(t) == [k |-> "str", b |-> FALSE, s |-> t, d |-> <<>>, o |-> <<>>]
Dict(f, order) == [k |-> "dict", b |-> FALSE, s |-> <<>>, d |-> f, o |-> order]

\* truth value of a Python value (None, False, "" and {} are false)
Truthy(v) ==
    \/ v.k = "bool" /\ v.b
    \/ v.k = "str" /\ v.s # <<>>
    \/ v.k = "dict" /\ DOMAIN v.d # {}

\* a or b
PyOr(a, b) == IF Truthy(a) THEN a ELSE b

\* dict.get(key, default)
Get(dct, key, default) == IF key \in DOMAIN dct THEN dct[key] ELSE default

Range(q) == {q[i] : i \in 1..Len(q)}

RECURSIVE Join(_, _)
\* sep.join(parts)
Join(parts, sep) ==
    IF parts = <<>> THEN <<>>
    ELSE IF Len(parts) = 1 THEN parts[1]
    ELSE parts[1] \o sep \o Join(Tail(parts), sep)

\* the whitespace characters that have no escape here: each is one element
\* of a text, written as Python spells it, with the characters of that
\* spelling, which is how repr() writes it
Spelled ==
    ("\\x0b" :> <<"\\", "x", "0", "b">>)
    @@ ("\\x1c" :> <<"\\", "x", "1", "c">>)
    @@ ("\\x1d" :> <<"\\", "x", "1", "d">>)
    @@ ("\\x1e" :> <<"\\", "x", "1", "e">>)
    @@ ("\\x1f" :> <<"\\", "x", "1", "f">>)
    @@ ("\\x85" :> <<"\\", "x", "8", "5">>)
    @@ ("\\xa0" :> <<"\\", "x", "a", "0">>)
    @@ ("\\u1680" :> <<"\\", "u", "1", "6", "8", "0">>)
    @@ ("\\u2000" :> <<"\\", "u", "2", "0", "0", "0">>)
    @@ ("\\u2001" :> <<"\\", "u", "2", "0", "0", "1">>)
    @@ ("\\u2002" :> <<"\\", "u", "2", "0", "0", "2">>)
    @@ ("\\u2003" :> <<"\\", "u", "2", "0", "0", "3">>)
    @@ ("\\u2004" :> <<"\\", "u", "2", "0", "0", "4">>)
    @@ ("\\u2005" :> <<"\\", "u", "2", "0", "0", "5">>)
    @@ ("\\u2006" :> <<"\\", "u", "2", "0", "0", "6">>)
    @@ ("\\u2007" :> <<"\\", "u", "2", "0", "0", "7">>)
    @@ ("\\u2008" :> <<"\\", "u", "2", "0", "0", "8">>)
    @@ ("\\u2009" :> <<"\\", "u", "2", "0", "0", "9">>)
    @@ ("\\u200a" :> <<"\\", "u", "2", "0", "0", "a">>)
    @@ ("\\u2028" :> <<"\\", "u", "2", "0", "2", "8">>)
    @@ ("\\u2029" :> <<"\\", "u", "2", "0", "2", "9">>)
    @@ ("\\u202f" :> <<"\\", "u", "2", "0", "2", "f">>)
    @@ ("\\u205f" :> <<"\\", "u", "2", "0", "5", "f">>)
    @@ ("\\u3000" :> <<"\\", "u", "3", "0", "0", "0">>)

\* repr(text): in single quotes, or in double quotes when the text holds
\* a single quote and no double quote; the quote, the backslash and the
\* control characters are written as escapes
ReprStr(text) ==
    LET quote == IF "'" \in Range(text) /\ "\"" \notin Range(text)
                 THEN "\"" ELSE "'"
        escaped(c) ==
            CASE c \in {quote, "\\"} -> <<"\\", c>>
              [] c = "\t" -> <<"\\", "t">>
              [] c = "\n" -> <<"\\", "n">>
              [] c = "\r" -> <<"\\", "r">>
              [] c = "\f" -> <<"\\", "x", "0", "c">>
              [] c \in DOMAIN Spelled -> Spelled[c]
              [] OTHER -> <<c>>
    IN <<quote>>
       \o Join([i \in 1..Len(text) |-> escaped(text[i])], <<>>)
       \o <<quote>>

RECURSIVE Repr(_)
\* repr(v); a dict shows its items in insertion order
Repr(v) ==
    CASE v.k = "none" -> <<"None">>
      [] v.k = "bool" -> IF v.b THEN <<"True">> ELSE <<"False">>
      [] v.k = "str" -> ReprStr(v.s)
      [] OTHER ->
           <<"{">>
           \o Join([i \in 1..Len(v.o) |->
                      ReprStr(v.o[i]) \o <<":", " ">> \o Repr(v.d[v.o[i]])],
                   <<",", " ">>)
           \o <<"}">>

\* str(v) as the csv writer applies it to a cell (None is written empty)
CellText(v) ==
    CASE v.k = "none" -> <<>>
      [] v.k = "str" -> v.s
      [] OTHER -> Repr(v)

\* the isoformat() of an aware UTC time: the microseconds are written, in
\* six digits, only when they are not zero, and the offset always
isoformat(now) ==
    LET digits == <<"0", "1", "2", "3", "4", "5", "6", "7", "8", "9">>
    IN now.second
       \o (IF now.microsecond = 0 THEN <<>>
           ELSE <<".">> \o [i \in 1..6 |->
                  digits[((now.microsecond \div (10 ^ (6 - i))) % 10) + 1]])
       \o <<"+00:00">>

\* text.endswith(suffix)
EndsWith(text, suffix) ==
    /\ Len(text) >= Len(suffix)
    /\ SubSeq(text, Len(text) - Len(suffix) + 1, Len(text)) = suffix

(* ----------------------------- csv module ------------------------------ *)
NoChar == "NONE"
EOL == "NUL"

\* csv.DictWriter(..., quoting=csv.QUOTE_ALL, escapechar="\\", lineterminator="\n")
CsvWriterDialect ==
    [delimiter |-> ",", quotechar |-> "\"", escapechar |-> "\\",
     doublequote |-> TRUE, quote_all |-> TRUE, lineterminator |-> "\n"]

\* csv.writer(ftsv, delimiter="\t", lineterminator="\n")
TsvWriterDialect ==
    [delimiter |-> "\t", quotechar |-> "\"", escapechar |-> NoChar,
     doublequote |-> TRUE, quote_all |-> FALSE, lineterminator |-> "\n"]

\* csv.reader(fin): the default dialect, which has no escape character
CsvReaderDialect ==
    [delimiter |-> ",", quotechar |-> "\"", escapechar |-> NoChar,
     doublequote |-> TRUE]

\* the characters the writer treats specially
NeedsCare(c, dia) ==
    c \in {dia.delimiter, dia.escapechar, dia.quotechar, dia.lineterminator}

RECURSIVE WriteChars(_, _)
\* the body of one field as the writer emits it: a quote is doubled, the
\* escape character is escaped by itself, every other character is copied
WriteChars(text, dia) ==
    IF text = <<>> THEN <<>>
    ELSE LET c == Head(text)
             out == IF c = dia.quotechar /\ dia.doublequote THEN <<c, c>>
                    ELSE IF c = dia.escapechar THEN <<dia.escapechar, c>>
                    ELSE <<c>>
         IN out \o WriteChars(Tail(text), dia)

\* whether the writer puts the field in quotes
FieldQuoted(text, nfields, dia) ==
    \/ dia.quote_all
    \/ \E i \in 1..Len(text) :
          NeedsCare(text[i], dia) /\ text[i] # dia.escapechar
    \/ nfields = 1 /\ text = <<>>

WriteField(text, nfields, dia) ==
    IF FieldQuoted(text, nfields, dia)
    THEN <<dia.quotechar>> \o WriteChars(text, dia) \o <<dia.quotechar>>
    ELSE WriteChars(text, dia)

\* writer.writerow(cells): the fields joined by the delimiter, then the
\* line terminator
WriteRow(cells, dia) ==
    Join([i \in 1..Len(cells) |-> WriteField(cells[i], Len(cells), dia)],
         <<dia.delimiter>>) \o <<dia.lineterminator>>

\* the reader's state before the first character of a record
ParseReset == [state |-> "START_RECORD", field |-> <<>>, fields |-> <<>>]

AddChar(S, c) == [S EXCEPT !.field = @ \o <<c>>]
SaveField(S) == [S EXCEPT !.fields = Append(@, S.field), !.field = <<>>]
SetState(S, st) == [S EXCEPT !.state = st]
AfterLine(c) == IF c = EOL THEN "START_RECORD" ELSE "EAT_CRNL"

\* the characters that end a record outside quotes
LineEnds == {"\n", "\r"}

\* the reader's transition on one character (EOL is the end-of-line mark
\* the reader feeds itself after every line)
ProcessChar(S, c, dia) ==
    LET st == IF S.state = "START_RECORD" /\ c \notin {EOL} \cup LineEnds
              THEN "START_FIELD"
              ELSE IF S.state = "AFTER_ESCAPED_CRNL" /\ c # EOL
              THEN "IN_FIELD"
              ELSE S.state
    IN CASE st = "START_RECORD" ->
              IF c = EOL THEN S ELSE SetState(S, "EAT_CRNL")
         [] st = "START_FIELD" ->
              IF c \in LineEnds \cup {EOL}
              THEN SetState(SaveField(S), AfterLine(c))
              ELSE IF c = dia.quotechar THEN SetState(S, "IN_QUOTED_FIELD")
              ELSE IF c = dia.escapechar THEN SetState(S, "ESCAPED_CHAR")
              ELSE IF c = dia.delimiter THEN SetState(SaveField(S), "START_FIELD")
              ELSE SetState(AddChar(S, c), "IN_FIELD")
         [] st = "ESCAPED_CHAR" ->
              IF c \in LineEnds THEN SetState(AddChar(S, c), "AFTER_ESCAPED_CRNL")
              ELSE SetState(AddChar(S, IF c = EOL THEN "\n" ELSE c), "IN_FIELD")
         [] st = "AFTER_ESCAPED_CRNL" -> S
         [] st = "IN_FIELD" ->
              IF c \in LineEnds \cup {EOL}
              THEN SetState(SaveField(S), AfterLine(c))
              ELSE IF c = dia.escapechar THEN SetState(S, "ESCAPED_CHAR")
              ELSE IF c = dia.delimiter THEN SetState(SaveField(S), "START_FIELD")
              ELSE SetState(AddChar(S, c), "IN_FIELD")
         [] st = "IN_QUOTED_FIELD" ->
              IF c = EOL THEN S
              ELSE IF c = dia.escapechar
              THEN SetState(S, "ESCAPE_IN_QUOTED_FIELD")
              ELSE IF c = dia.quotechar
              THEN SetState(S, IF dia.doublequote THEN "QUOTE_IN_QUOTED_FIELD"
                                               ELSE "IN_FIELD")
              ELSE AddChar(S, c)
         [] st = "ESCAPE_IN_QUOTED_FIELD" ->
              SetState(AddChar(S, IF c = EOL THEN "\n" ELSE c), "IN_QUOTED_FIELD")
         [] st = "QUOTE_IN_QUOTED_FIELD" ->
              IF c = dia.quotechar THEN SetState(AddChar(S, c), "IN_QUOTED_FIELD")
              ELSE IF c = dia.delimiter
              THEN SetState(SaveField(S), "START_FIELD")
              ELSE IF c \in LineEnds \cup {EOL}
              THEN SetState(SaveField(S), AfterLine(c))
              ELSE SetState(AddChar(S, c), "IN_FIELD")
         [] OTHER ->
              \* EAT_CRNL: only a line end can follow, since the file hands
              \* over a new line after every "\n", "\r" and "\r\n"
              IF c = EOL THEN SetState(S, "START_RECORD") ELSE S

\* the reader before the first line: no row returned yet, no record begun,
\* no line begun (line is "empty" at the start of a line, "open" inside
\* one, "cr" after a "\r" that ends the line unless a "\n" follows)
ReaderStart ==
    [S |-> ParseReset, rows |-> <<>>, started |-> FALSE, line |-> "empty"]

\* the end of a line: the reader feeds itself the end-of-line mark, and a
\* record that is complete there is returned and the state reset
EndLine(R, dia) ==
    LET T == ProcessChar(R.S, EOL, dia)
    IN IF T.state = "START_RECORD"
       THEN [S |-> ParseReset, rows |-> Append(R.rows, T.fields),
             started |-> FALSE, line |-> "empty"]
       ELSE [S |-> T, rows |-> R.rows, started |-> TRUE, line |-> "empty"]

\* one character of the file, opened with newline="": the lines it hands
\* to the reader end after "\n", after "\r\n" and after a "\r" that no
\* "\n" follows, and keep their line end
FeedChar(R, c, dia) ==
    LET Q == IF R.line = "cr" /\ c # "\n" THEN EndLine(R, dia) ELSE R
        T == [Q EXCEPT !.S = ProcessChar(Q.S, c, dia), !.started = TRUE,
                       !.line = IF c = "\r" THEN "cr" ELSE "open"]
    IN IF c = "\n" THEN EndLine(T, dia) ELSE T

RECURSIVE ReadSpan(_, _, _, _, _)
\* the reader after the characters lo..hi of the text, in order: the first
\* half is read, then the second half from the state the first left
ReadSpan(text, lo, hi, R, dia) ==
    IF lo > hi THEN R
    ELSE IF lo = hi THEN FeedChar(R, text[lo], dia)
    ELSE LET mid == (lo + hi) \div 2
             left == ReadSpan(text, lo, mid, R, dia)
         IN IF left.started \in BOOLEAN
            THEN ReadSpan(text, mid + 1, hi, left, dia)
            ELSE left

\* the end of the file: a last line without "\n" gets its end-of-line
\* mark, and a record still open (a field begun, or inside quotes) is
\* returned
AtEndOfFile(text, R, dia) ==
    LET Q == IF R.line # "empty" THEN EndLine(R, dia) ELSE R
    IN IF ~Q.started THEN Q.rows
       ELSE IF Q.S.field # <<>> \/ Q.S.state = "IN_QUOTED_FIELD"
       THEN Append(Q.rows, SaveField(Q.S).fields)
       ELSE Q.rows

\* list(csv.reader(f)) for a file holding the text
ReadRows(text, dia) ==
    AtEndOfFile(text, ReadSpan(text, 1, Len(text), ReaderStart, dia), dia)

RECURSIVE WriteRows(_, _)
\* writer.writerow for every row in turn
WriteRows(rows, dia) ==
    IF rows = <<>> THEN <<>>
    ELSE WriteRow(Head(rows), dia) \o WriteRows(Tail(rows), dia)

(* ------------------------- str ordering, lower ------------------------- *)
UpperChars == <<"A","B","C","D","E","F","G","H","I","J","K","L","M",
                "N","O","P","Q","R","S","T","U","V","W","X","Y","Z">>
LowerChars == <<"a","b","c","d","e","f","g","h","i","j","k","l","m",
                "n","o","p","q","r","s","t","u","v","w","x","y","z">>
\* the letters in code point order
CodeOrder == UpperChars \o LowerChars

Ord(c) == CHOOSE i \in 1..Len(CodeOrder) : CodeOrder[i] = c

LowerChar(c) ==
    IF c \in Range(UpperChars)
    THEN LowerChars[CHOOSE i \in 1..Len(UpperChars) : UpperChars[i] = c]
    ELSE c

\* text.lower()
Lower(text) == [i \in 1..Len(text) |-> LowerChar(text[i])]

RECURSIVE TextLess(_, _)
\* a < b on str: the first differing character decides, a proper prefix
\* is smaller
TextLess(a, b) ==
    IF b = <<>> THEN FALSE
    ELSE IF a = <<>> THEN TRUE
    ELSE IF Head(a) = Head(b) THEN TextLess(Tail(a), Tail(b))
    ELSE Ord(Head(a)) < Ord(Head(b))

\* k1 < k2 on the (int, str) tuples the sort key returns
KeyLess(k1, k2) ==
    \/ k1[1] < k2[1]
    \/ k1[1] = k2[1] /\ TextLess(k1[2], k2[2])

KeyLeq(k1, k2) == ~KeyLess(k2, k1)

(* -------------------------- names of the code -------------------------- *)
CustomSuffix == <<"_", "_", "c">>
CurrencyIsoCode == <<"CurrencyIsoCode">>
EntryCurrencyCol == <<"Entry.CurrencyIsoCode">>

(* ------------------------- discover_custom_fields ---------------------- *)
\* the custom, visible, queryable field names of a describe() result, in
\* the order of the result
RECURSIVE CustomNames(_)
CustomNames(descs) ==
    IF descs = <<>> THEN <<>>
    ELSE LET f == Head(descs)
             name == Get(f, <<"name">>, None)
             skip == \/ ~Truthy(name)
                     \/ ~EndsWith(name.s, CustomSuffix)
                     \/ Truthy(Get(f, <<"deprecatedAndHidden">>, None))
                     \/ /\ <<"queryable">> \in DOMAIN f
                        /\ ~Truthy(f[<<"queryable">>])
         IN (IF skip THEN <<>> ELSE <<name.s>>) \o CustomNames(Tail(descs))

discover_custom_fields(desc) == CustomNames(Get(desc, <<"fields">>, <<>>))

(* --------------------------- detect_multi_currency --------------------- *)
NoSuchColumnText ==
    <<"No such column 'CurrencyIsoCode' on entity 'PricebookEntry'">>

\* sub in text
Contains(text, sub) ==
    \E i \in 0..(Len(text) - Len(sub)) : SubSeq(text, i + 1, i + Len(sub)) = sub

\* mutant of detect_multi_currency: every malformed-query fault reads as
\* "column absent"
detect_multi_currency_any_malformed(outcome) ==
    IF outcome.kind = "ok" THEN [raised |-> FALSE, value |-> TRUE]
    ELSE IF outcome.kind = "SalesforceMalformedRequest"
    THEN [raised |-> FALSE, value |-> FALSE]
    ELSE [raised |-> TRUE, value |-> FALSE]

\* the probe's result for an outcome of the 1-row query: the value
\* returned, or the fault raised again
detect_multi_currency(outcome) ==
    IF outcome.kind = "ok" THEN [raised |-> FALSE, value |-> TRUE]
    ELSE IF outcome.kind = "SalesforceMalformedRequest"
            /\ Contains(outcome.msg, NoSuchColumnText)
    THEN [raised |-> FALSE, value |-> FALSE]
    ELSE [raised |-> TRUE, value |-> FALSE]

(* ----------------------------- query builders -------------------------- *)
PricebookFields ==
    << <<"Id">>, <<"Name">>, <<"IsActive">>, <<"IsStandard">>,
       <<"Description">>, <<"CreatedDate">>, <<"LastModifiedDate">> >>

build_all_pricebooks_soql ==
    <<"SELECT ">> \o Join(PricebookFields, <<", ">>) \o <<" FROM Pricebook2">>

CoreQueryFields ==
    << <<"Id">>, <<"Pricebook2Id">>, <<"Product2Id">>, <<"UnitPrice">>,
       <<"IsActive">>, <<"UseStandardPrice">>, <<"CreatedDate">>,
       <<"LastModifiedDate">>,
       <<"Pricebook2.Id">>, <<"Pricebook2.Name">>, <<"Pricebook2.IsActive">>,
       <<"Pricebook2.IsStandard">>, <<"Pricebook2.Description">>,
       <<"Pricebook2.CreatedDate">>, <<"Pricebook2.LastModifiedDate">>,
       <<"Product2.Name">>, <<"Product2.ProductCode">>, <<"Product2.Family">>,
       <<"Product2.IsActive">>, <<"Product2.Description">> >>

\* the field list of the joined query
FlatPbeFields(include_currency_iso, pbe_fields, product2_fields) ==
    CoreQueryFields
    \o (IF include_currency_iso THEN <<CurrencyIsoCode>> ELSE <<>>)
    \o pbe_fields
    \o [i \in 1..Len(product2_fields) |-> <<"Product2.">> \o product2_fields[i]]

\* mutant of build_flat_pbe_soql: the single-catalog filter is never added
build_flat_pbe_soql_unfiltered(include_currency_iso, pbe_fields, product2_fields, pricebook2_id) ==
    <<"SELECT ">>
    \o Join(FlatPbeFields(include_currency_iso, pbe_fields, product2_fields),
            <<", ">>)
    \o <<" FROM PricebookEntry">>

build_flat_pbe_soql(include_currency_iso, pbe_fields, product2_fields, pricebook2_id) ==
    <<"SELECT ">>
    \o Join(FlatPbeFields(include_currency_iso, pbe_fields, product2_fields),
            <<", ">>)
    \o <<" FROM PricebookEntry">>
    \o (IF Truthy(pricebook2_id)
        THEN <<" WHERE Pricebook2Id = '">> \o pricebook2_id.s \o <<"'">>
        ELSE <<>>)

(* -------------------------------- safe_rel ----------------------------- *)
\* the key of an embedded relationship sub-object, the default when the
\* sub-object is missing or no dict
safe_rel(dct, rel_name, key, default) ==
    LET rel == Get(dct, rel_name, None)
    IN IF rel.k = "dict" THEN Get(rel.d, key, default) ELSE default

(* ------------------------------ header columns ------------------------- *)
BaseCols ==
    << <<"Pricebook.Id">>, <<"Pricebook.Name">>, <<"Entry.Id">>,
       <<"Entry.Pricebook2Id">>, <<"Entry.Product2Id">>, <<"Entry.UnitPrice">>,
       <<"Entry.IsActive">>, <<"Entry.UseStandardPrice">>,
       <<"Entry.CreatedDate">>, <<"Entry.LastModifiedDate">>,
       <<"Product.Id">>, <<"Product.Name">>, <<"Product.ProductCode">>,
       <<"Product.Family">>, <<"Product.IsActive">>,
       <<"Product.Description">> >>

\* list.insert(i, x) with Python's 0-based index
ListInsert(lst, i, x) == SubSeq(lst, 1, i) \o <<x>> \o SubSeq(lst, i + 1, Len(lst))

CurrencyInsertAt == 7

\* mutant of base_cols: the currency column is inserted unconditionally
base_cols_always(include_currency) ==
    ListInsert(BaseCols, CurrencyInsertAt, EntryCurrencyCol)

base_cols(include_currency) ==
    IF include_currency
    THEN ListInsert(BaseCols, CurrencyInsertAt, EntryCurrencyCol)
    ELSE BaseCols

\* mutant of dynamic_cols: the product custom columns come first
dynamic_cols_product_first(include_product2, pbe_fields, product2_fields) ==
    (IF include_product2
     THEN [i \in 1..Len(product2_fields) |-> <<"Product.">> \o product2_fields[i]]
     ELSE <<>>)
    \o [i \in 1..Len(pbe_fields) |-> <<"Entry.">> \o pbe_fields[i]]

dynamic_cols(include_product2, pbe_fields, product2_fields) ==
    [i \in 1..Len(pbe_fields) |-> <<"Entry.">> \o pbe_fields[i]]
    \o (IF include_product2
        THEN [i \in 1..Len(product2_fields) |-> <<"Product.">> \o product2_fields[i]]
        ELSE <<>>)

HeaderCols(include_currency, include_product2, pbe_fields, product2_fields) ==
    base_cols(include_currency)
    \o dynamic_cols(include_product2, pbe_fields, product2_fields)

(* ----------------------------- require_env ----------------------------- *)
RequiredEnv == << <<"SF_USERNAME">>, <<"SF_PASSWORD">>, <<"SF_SECURITY_TOKEN">> >>

\* mutant of require_env: nothing is ever reported missing
require_env_nothing_missing(env) == <<>>

\* the required variables that are empty, in the order they are checked
require_env(env) ==
    SelectSeq(RequiredEnv, LAMBDA key : ~Truthy(env[key]))

(* ------------------------- dicts and the catalog index ----------------- *)
\* d[key] = value
DictSet(d, key, value) == (key :> value) @@ d

\* for f in names: d[prefix + f] = value[f]
CopyKeys(d, names, prefix, value) ==
    LET new == {prefix \o names[i] : i \in 1..Len(names)}
        name(k) == names[CHOOSE i \in 1..Len(names) : prefix \o names[i] = k]
    IN [k \in DOMAIN d \cup new |-> IF k \in new THEN value[name(k)] ELSE d[k]]

\* the index is an insertion-ordered dict: a sequence of key/value pairs
MapKeys(m) == {m[i].key : i \in 1..Len(m)}
MapIndex(m, key) == CHOOSE i \in 1..Len(m) : m[i].key = key
MapGet(m, key) == m[MapIndex(m, key)].val

\* m[key] = val: an existing key keeps its place
MapSet(m, key, val) ==
    IF key \in MapKeys(m)
    THEN [m EXCEPT ![MapIndex(m, key)].val = val]
    ELSE Append(m, [key |-> key, val |-> val])

\* mutant of MapAppendEntry: the entry list is assigned, not appended to
MapAppendEntryOverwrites(m, key, entry) ==
    [m EXCEPT ![MapIndex(m, key)].val.Entries = <<entry>>]

\* m[key]["Entries"].append(entry)
MapAppendEntry(m, key, entry) ==
    [m EXCEPT ![MapIndex(m, key)].val.Entries = Append(@, entry)]

\* list(m.values())
MapValues(m) == [i \in 1..Len(m) |-> m[i].val]

\* the Catalog built for one row of the catalog listing
PreloadedCatalog(pb) ==
    [Id |-> pb[<<"Id">>],
     Name |-> Get(pb, <<"Name">>, None),
     IsActive |-> Get(pb, <<"IsActive">>, None),
     IsStandard |-> Get(pb, <<"IsStandard">>, None),
     Description |-> Get(pb, <<"Description">>, None),
     CreatedDate |-> Get(pb, <<"CreatedDate">>, None),
     LastModifiedDate |-> Get(pb, <<"LastModifiedDate">>, None),
     Entries |-> <<>>]

RECURSIVE Preload(_, _)
\* for pb in sf.query_all_iter(pb_soql): pricebooks_map[pb["Id"]] = {...}
Preload(m, listing) ==
    IF listing = <<>> THEN m
    ELSE Preload(MapSet(m, Head(listing)[<<"Id">>], PreloadedCatalog(Head(listing))),
                 Tail(listing))

\* the Catalog materialized from the parent attributes embedded in a record
EmbeddedCatalog(r, pb_id, pb_name) ==
    [Id |-> pb_id,
     Name |-> pb_name,
     IsActive |-> safe_rel(r, <<"Pricebook2">>, <<"IsActive">>, None),
     IsStandard |-> safe_rel(r, <<"Pricebook2">>, <<"IsStandard">>, None),
     Description |-> safe_rel(r, <<"Pricebook2">>, <<"Description">>, None),
     CreatedDate |-> safe_rel(r, <<"Pricebook2">>, <<"CreatedDate">>, None),
     LastModifiedDate |-> safe_rel(r, <<"Pricebook2">>, <<"LastModifiedDate">>, None),
     Entries |-> <<>>]

(* -------------------------- one record of the pass --------------------- *)
\* mutant of ParentId: no fallback to the flat parent identity
ParentIdEmbeddedOnly(r) == safe_rel(r, <<"Pricebook2">>, <<"Id">>, None)

\* pb_id = safe_rel(r, "Pricebook2", "Id") or r.get("Pricebook2Id")
ParentId(r) ==
    PyOr(safe_rel(r, <<"Pricebook2">>, <<"Id">>, None),
         Get(r, <<"Pricebook2Id">>, None))

ParentName(r) == safe_rel(r, <<"Pricebook2">>, <<"Name">>, None)

\* entry["Product"], with the product custom fields when they are included
EntryProduct(r, include_product2, product2_fields) ==
    LET core ==
          (<<"Id">> :> Get(r, <<"Product2Id">>, None))
          @@ (<<"Name">> :> safe_rel(r, <<"Product2">>, <<"Name">>, None))
          @@ (<<"ProductCode">> :> safe_rel(r, <<"Product2">>, <<"ProductCode">>, None))
          @@ (<<"Family">> :> safe_rel(r, <<"Product2">>, <<"Family">>, None))
          @@ (<<"IsActive">> :> safe_rel(r, <<"Product2">>, <<"IsActive">>, None))
          @@ (<<"Description">> :> safe_rel(r, <<"Product2">>, <<"Description">>, None))
        custom == [f \in Range(product2_fields) |-> safe_rel(r, <<"Product2">>, f, None)]
    IN IF include_product2
       THEN CopyKeys(core, product2_fields, <<>>, custom)
       ELSE core

\* the nested Entry of a record
BuildEntry(r, include_currency, include_product2, pbe_fields, product2_fields) ==
    LET core ==
          (<<"Id">> :> Get(r, <<"Id">>, None))
          @@ (<<"Pricebook2Id">> :> Get(r, <<"Pricebook2Id">>, None))
          @@ (<<"Product2Id">> :> Get(r, <<"Product2Id">>, None))
          @@ (<<"UnitPrice">> :> Get(r, <<"UnitPrice">>, None))
          @@ (<<"IsActive">> :> Get(r, <<"IsActive">>, None))
          @@ (<<"UseStandardPrice">> :> Get(r, <<"UseStandardPrice">>, None))
          @@ (<<"CreatedDate">> :> Get(r, <<"CreatedDate">>, None))
          @@ (<<"LastModifiedDate">> :> Get(r, <<"LastModifiedDate">>, None))
          @@ (<<"Product">> :>
                Dict(EntryProduct(r, include_product2, product2_fields),
                     <<<<"Id">>, <<"Name">>, <<"ProductCode">>, <<"Family">>,
                       <<"IsActive">>, <<"Description">>>>
                     \o (IF include_product2 THEN product2_fields ELSE <<>>)))
        withCurrency ==
          IF include_currency
          THEN DictSet(core, CurrencyIsoCode, Get(r, CurrencyIsoCode, None))
          ELSE core
        custom == [f \in Range(pbe_fields) |-> Get(r, f, None)]
    IN CopyKeys(withCurrency, pbe_fields, <<>>, custom)

\* the flat row of a record, built from its Entry
BuildRow(entry, pb_id, pb_name, include_currency, include_product2, pbe_fields, product2_fields) ==
    LET product == entry[<<"Product">>].d
        core ==
          (<<"Pricebook.Id">> :> pb_id)
          @@ (<<"Pricebook.Name">> :> pb_name)
          @@ (<<"Entry.Id">> :> entry[<<"Id">>])
          @@ (<<"Entry.Pricebook2Id">> :> entry[<<"Pricebook2Id">>])
          @@ (<<"Entry.Product2Id">> :> entry[<<"Product2Id">>])
          @@ (<<"Entry.UnitPrice">> :> entry[<<"UnitPrice">>])
          @@ (<<"Entry.IsActive">> :> entry[<<"IsActive">>])
          @@ (<<"Entry.UseStandardPrice">> :> entry[<<"UseStandardPrice">>])
          @@ (<<"Entry.CreatedDate">> :> entry[<<"CreatedDate">>])
          @@ (<<"Entry.LastModifiedDate">> :> entry[<<"LastModifiedDate">>])
          @@ (<<"Product.Id">> :> product[<<"Id">>])
          @@ (<<"Product.Name">> :> product[<<"Name">>])
          @@ (<<"Product.ProductCode">> :> product[<<"ProductCode">>])
          @@ (<<"Product.Family">> :> product[<<"Family">>])
          @@ (<<"Product.IsActive">> :> product[<<"IsActive">>])
          @@ (<<"Product.Description">> :> product[<<"Description">>])
        withCurrency ==
          IF include_currency
          THEN DictSet(core, EntryCurrencyCol, Get(entry, CurrencyIsoCode, None))
          ELSE core
        entryCustom == [f \in Range(pbe_fields) |-> Get(entry, f, None)]
        productCustom == [f \in Range(product2_fields) |-> Get(product, f, None)]
        withEntry == CopyKeys(withCurrency, pbe_fields, <<"Entry.">>, entryCustom)
    IN IF include_product2
       THEN CopyKeys(withEntry, product2_fields, <<"Product.">>, productCustom)
       ELSE withEntry

\* DictWriter: the cells of a row dict in header order, a missing key
\* written empty and a key outside the header ignored
RowCells(row, fieldnames) ==
    [i \in 1..Len(fieldnames) |-> CellText(Get(row, fieldnames[i], Str(<<>>)))]

(* ---------------------------- Document Finalizer ----------------------- *)
\* mutant of _pb_sort_key: the name is compared with its case
_pb_sort_key_cased(pb) ==
    << IF Truthy(pb.IsStandard) THEN 0 ELSE 1, PyOr(pb.Name, Str(<<>>)).s >>

\* (0 if pb.get("IsStandard") else 1, (pb.get("Name") or "").lower())
_pb_sort_key(pb) ==
    << IF Truthy(pb.IsStandard) THEN 0 ELSE 1,
       Lower(PyOr(pb.Name, Str(<<>>)).s) >>

RECURSIVE StableInsert(_, _)
\* x placed after every element whose key is not greater than its own
StableInsert(done, x) ==
    IF done = <<>> THEN <<x>>
    ELSE IF KeyLess(x.key, Head(done).key)
    THEN <<x>> \o done
    ELSE <<Head(done)>> \o StableInsert(Tail(done), x)

RECURSIVE SortInto(_, _)
SortInto(done, rest) ==
    IF rest = <<>> THEN done
    ELSE SortInto(StableInsert(done, Head(rest)), Tail(rest))

\* sorted(values, key=key): every key computed once, the order stable and
\* ascending
sorted(values, key) ==
    LET keyed == [i \in 1..Len(values) |-> [key |-> key[values[i]], val |-> values[i]]]
        result == SortInto(<<>>, keyed)
    IN [i \in 1..Len(result) |-> result[i].val]

RECURSIVE SumEntries(_)
\* sum(len(pb["Entries"]) for pb in pricebooks)
SumEntries(pricebooks) ==
    IF pricebooks = <<>> THEN 0
    ELSE Len(Head(pricebooks).Entries) + SumEntries(Tail(pricebooks))

\* the document written as JSON
BuildOutput(now, m, include_currency, pbe_fields, product2_fields) ==
    LET values == MapValues(m)
        pricebooks == sorted(values, [pb \in Range(values) |-> _pb_sort_key(pb)])
    IN [exported_at |-> isoformat(now),
        pricebook_count |-> Len(pricebooks),
        total_entry_count |-> SumEntries(pricebooks),
        multi_currency |-> include_currency,
        included_custom_fields |->
            [PricebookEntry |-> pbe_fields, Product2 |-> product2_fields],
        pricebooks |-> pricebooks]

(* ------------------------ the data the run can meet -------------------- *)
P1 == <<"P1">>
P2 == <<"P2">>
P3 == <<"P3">>
P4 == <<"P4">>
NameBase == <<"B", "a", "s", "e">>
NameAlpha == <<"a", "l", "p", "h", "a">>
NameAlphaCap == <<"A", "l", "p", "h", "a">>
NameZeta == <<"Z", "e", "t", "a">>
FieldA == <<"A", "_", "_", "c">>
FieldB == <<"B", "_", "_", "c">>
FieldHidden == <<"H", "_", "_", "c">>
FieldNoQuery == <<"N", "_", "_", "c">>
FieldAlmost == <<"X", "_", "c">>

\* a row of the catalog listing, or the parent sub-object of a record
Pricebook2(id, name, standard) ==
    (<<"Id">> :> Str(id))
    @@ (<<"Name">> :> name)
    @@ (<<"IsActive">> :> Bool(TRUE))
    @@ (<<"IsStandard">> :> standard)
    @@ (<<"Description">> :> None)
    @@ (<<"CreatedDate">> :> Str(<<"2024-01-01">>))
    @@ (<<"LastModifiedDate">> :> Str(<<"2024-02-01">>))

ListedBase == Pricebook2(P1, Str(NameBase), Bool(TRUE))
ListedAlpha == Pricebook2(P2, Str(NameAlpha), Bool(FALSE))
ListedZeta == Pricebook2(P3, Str(NameZeta), Bool(FALSE))
ListedNoName == Pricebook2(P4, None, None)

\* the catalog listings the remote service returns
Listings(o) ==
    IF o = "text" THEN {<<ListedBase>>}
    ELSE {<<>>, <<ListedZeta, ListedAlpha, ListedBase>>,
          <<ListedAlpha, ListedNoName>>, <<ListedBase>>}

\* a field descriptor of describe()
Descriptor(name, flags) == (<<"name">> :> Str(name)) @@ flags

Visible == (<<"deprecatedAndHidden">> :> Bool(FALSE)) @@ (<<"queryable">> :> Bool(TRUE))
NoQueryableFlag == (<<"deprecatedAndHidden">> :> Bool(FALSE))
Hidden == (<<"deprecatedAndHidden">> :> Bool(TRUE)) @@ (<<"queryable">> :> Bool(TRUE))
NotQueryable == (<<"queryable">> :> Bool(FALSE))

Describe(fields) == (<<"fields">> :> fields)

\* the describe() results of the two entity types
PbeDescribes(o) ==
    IF o = "text" THEN {Describe(<<Descriptor(FieldA, Visible)>>)}
    ELSE {Describe(<<Descriptor(<<"UnitPrice">>, Visible),
                     Descriptor(FieldAlmost, Visible)>>),
          Describe(<<Descriptor(FieldB, NoQueryableFlag),
                     Descriptor(<<"Name">>, Visible),
                     Descriptor(FieldA, Visible),
                     Descriptor(FieldHidden, Hidden)>>)}

Product2Describes(o) ==
    IF o = "text" THEN {Describe(<<Descriptor(FieldA, Visible)>>)}
    ELSE {Describe(<<Descriptor(FieldNoQuery, NotQueryable)>>),
          Describe(<<Descriptor(FieldA, Visible),
                     Descriptor(<<"Family">>, Visible)>>)}

\* the outcomes of the 1-row probe query
ProbeOutcomes(o) ==
    IF o = "text" THEN {[kind |-> "ok", msg |-> <<>>]}
    ELSE {[kind |-> "ok", msg |-> <<>>],
          [kind |-> "SalesforceMalformedRequest",
           msg |-> <<"Malformed request. Response content: ">>
                   \o NoSuchColumnText \o <<" at row 1">>],
          [kind |-> "SalesforceMalformedRequest",
           msg |-> <<"No such column 'Id' on entity 'PricebookEntry'">>],
          [kind |-> "SalesforceExpiredSession", msg |-> NoSuchColumnText],
          [kind |-> "ConnectionError", msg |-> <<"connection reset">>]}

\* the faults the remote calls raise besides the probe's
LoginFaults == {"SalesforceAuthenticationFailed", "ConnectionError"}
RemoteFaults(o) ==
    IF o = "text" THEN {} ELSE {"SalesforceMalformedRequest", "ConnectionError"}

EntryIds == << <<"E1">>, <<"E2">>, <<"E3">>, <<"E4">> >>

\* the parent of a record: the embedded sub-object and the flat identity
ParentEmbedded == [sub |-> Dict(ListedBase, PricebookFields), flat |-> Str(P1)]
ParentMissing == [sub |-> None, flat |-> Str(P2)]
ParentRenamed ==
    [sub |-> Dict(Pricebook2(P2, Str(NameAlphaCap), Bool(FALSE)), PricebookFields),
     flat |-> Str(P2)]
Parents == {ParentEmbedded, ParentMissing, ParentRenamed}

\* the referenced product of a record, with its name
Product2(name) ==
    Dict((<<"Name">> :> name)
         @@ (<<"ProductCode">> :> Str(<<"W-1">>))
         @@ (<<"Family">> :> None)
         @@ (<<"IsActive">> :> Bool(TRUE))
         @@ (<<"Description">> :> Str(<<"a,b">>))
         @@ (FieldA :> Str(<<"pa">>)),
         <<<<"Name">>, <<"ProductCode">>, <<"Family">>, <<"IsActive">>,
           <<"Description">>, FieldA>>)

\* a compound field value (a geolocation) as the query returns it
Compound ==
    Dict((<<"latitude">> :> Str(<<"4", "'", "\\xa0", "N">>)) @@ (<<"longitude">> :> None),
         <<<<"latitude">>, <<"longitude">>>>)

\* the n-th record of the joined query
Record(n, parent, product, currency, custom) ==
    (<<"Id">> :> Str(EntryIds[n]))
    @@ (<<"Pricebook2Id">> :> parent.flat)
    @@ (<<"Product2Id">> :> Str(<<"Q1">>))
    @@ (<<"UnitPrice">> :> Str(<<"9.5">>))
    @@ (<<"IsActive">> :> Bool(TRUE))
    @@ (<<"UseStandardPrice">> :> Bool(FALSE))
    @@ (<<"CreatedDate">> :> Str(<<"2024-03-01">>))
    @@ (<<"LastModifiedDate">> :> Str(<<"2024-03-02">>))
    @@ (<<"Pricebook2">> :> parent.sub)
    @@ (<<"Product2">> :> product)
    @@ (CurrencyIsoCode :> currency)
    @@ (FieldA :> Str(<<"ea">>))
    @@ (FieldB :> custom)

\* the characters a cell text is drawn from: an ordinary one and the ones
\* the csv dialects treat specially
CellChars == {"a", ",", "\"", "\t", "\n", "\r", "\\"}
CellTexts == UNION {[1..n -> CellChars] : n \in 0..MaxLen}

\* the records the stream can yield next; a configured restriction is
\* applied by the remote service
RecordChoices(o, n, pricebook2_id) ==
    LET all ==
          IF o = "text"
          THEN {Record(n, ParentEmbedded, Product2(Str(t)), Str(<<"USD">>), None) :
                  t \in CellTexts}
          ELSE {Record(n, p, Product2(Str(<<"Widget">>)), Str(<<"USD">>), None) :
                  p \in Parents}
               \cup {Record(n, ParentMissing, None, None, Compound)}
    IN IF Truthy(pricebook2_id)
       THEN {r \in all : r[<<"Pricebook2Id">>] = pricebook2_id}
       ELSE all

\* whether the stream can yield another record after n: the text org holds
\* a single entry
MoreRecords(o, n) == n < MaxRecords /\ (o = "text" => n = 0)

Env(password) ==
    (<<"SF_USERNAME">> :> Str(<<"user">>))
    @@ (<<"SF_PASSWORD">> :> password)
    @@ (<<"SF_SECURITY_TOKEN">> :> Str(<<"token">>))

\* the configurations of the environment
Configs ==
    {[env |-> Env(Str(<<"secret">>)), INCLUDE_PRODUCT2_CUSTOM_FIELDS |-> TRUE,
      PRICEBOOK2_ID |-> None],
     [env |-> Env(Str(<<"secret">>)), INCLUDE_PRODUCT2_CUSTOM_FIELDS |-> FALSE,
      PRICEBOOK2_ID |-> Str(P1)],
     [env |-> Env(Str(<<>>)), INCLUDE_PRODUCT2_CUSTOM_FIELDS |-> TRUE,
      PRICEBOOK2_ID |-> None]}

\* datetime.now(timezone.utc): the readings of the clock, the date and
\* time to the second and the microseconds
Clocks ==
    {[second |-> <<"2024-05-01T00:00:00">>, microsecond |-> 0],
     [second |-> <<"2024-05-01T00:05:00">>, microsecond |-> 1230]}

\* the three output files as an earlier run left them
NoFile == [exists |-> FALSE, open |-> FALSE, text |-> <<>>]
StaleDoc ==
    [exported_at |-> <<"2024-04-30T23:55:00", "+00:00">>, pricebook_count |-> 0,
     total_entry_count |-> 0, multi_currency |-> FALSE,
     included_custom_fields |-> [PricebookEntry |-> <<>>, Product2 |-> <<>>],
     pricebooks |-> <<>>]
StaleCsv ==
    [exists |-> TRUE, open |-> FALSE,
     text |-> WriteRow(<< <<"Old.Column">> >>, CsvWriterDialect)]
StaleTsv ==
    [exists |-> TRUE, open |-> FALSE,
     text |-> WriteRow(<< <<"Old.Column">> >>, TsvWriterDialect)]
PriorRuns == {"none", "success"}

(* ------------------------------ the runner ----------------------------- *)
\* longest output of a child process, in lines
MaxOutput == 1

AppScript == <<"app.py">>
DistributerScript == <<"distributer.py">>
OtherScript == <<"other", ".py">>

\* the characters \s matches and strip() removes
Whitespace == {" ", "\t", "\n", "\r", "\f"} \cup DOMAIN Spelled

\* the characters parse_scripts_list splits at: [,\s;]
ListSeparators == Whitespace \cup {",", ";"}

RECURSIVE strip(_)
\* raw.strip(): the text without the whitespace at its two ends
strip(raw) ==
    IF raw = <<>> THEN raw
    ELSE IF Head(raw) \in Whitespace THEN strip(Tail(raw))
    ELSE IF raw[Len(raw)] \in Whitespace THEN strip(SubSeq(raw, 1, Len(raw) - 1))
    ELSE raw

RECURSIVE SplitList(_, _, _)
\* re.split(r"[,\s;]+", raw): the runs of other characters, in order; word
\* is the run being read
SplitList(raw, word, parts) ==
    IF raw = <<>> THEN Append(parts, word)
    ELSE IF Head(raw) \in ListSeparators
    THEN IF word = <<>> /\ parts # <<>>
         THEN SplitList(Tail(raw), <<>>, parts)
         ELSE SplitList(Tail(raw), <<>>, Append(parts, word))
    ELSE SplitList(Tail(raw), Append(word, Head(raw)), parts)

\* the list of script names of RUNNER_SCRIPTS, empty parts dropped
parse_scripts_list(raw) ==
    SelectSeq(SplitList(strip(raw), <<>>, <<>>), LAMBDA part : part # <<>>)

\* the values of RUNNER_SCRIPTS
ScriptLists ==
    {<<"app.py", " ", "distributer.py">>,
     <<" ", "app.py", ",", "\r", "\n", "other", ".py", ";", "\\x0b",
       "distributer.py", "\n">>,
     <<"distributer.py", ";", ";", "app.py">>,
     <<" ", ",">>}

\* the script files found in the scripts directory
ScriptDirs ==
    {{AppScript, DistributerScript, OtherScript}, {AppScript, DistributerScript},
     {DistributerScript}, {AppScript}}

\* how a run of app.py ends: exit status, and whether the hierarchical
\* document was written
AppOutcomes == {[rc |-> 0, wrote |-> TRUE], [rc |-> 1, wrote |-> FALSE]}

\* how a run of distributer.py ends for a hierarchical document that is
\* absent, left by an earlier cycle or written in this one
DistributerOutcome(document) ==
    IF document = "absent" THEN [rc |-> 1, read |-> "nothing"]
    ELSE [rc |-> 0, read |-> document]

VARIABLE
    runner                  \* the state of run_one_cycle, a record

\* the runner is not part of the state of a single run of app.py
RunnerIdle ==
    [pc |-> "idle", scripts_list |-> <<>>, on_disk |-> {}, script_names |-> <<>>,
     idx |-> 0, children |-> {}, child |-> "none", lines |-> 0, started |-> <<>>,
     returned |-> <<>>, log |-> <<>>, document |-> "absent", remapped |-> <<>>]

(* ------------------------------- the run ------------------------------- *)
VARIABLES
    config,                 \* environment variables read at import
    org,                    \* the kind of data the remote service holds
    pc,                     \* position of main()
    fault,                  \* exception that ended the run, "none" if none
    exit_code,              \* -1 while running, then the process exit status
    calls,                  \* remote calls made so far
    probe_outcome,          \* what the probe query met, kind "none" before
    listed,                 \* rows of the catalog listing pulled by the preload
    pbe_custom_fields,
    product2_custom_fields,
    include_currency,
    pricebooks_map,
    header_cols,
    total_entry_rows,
    consumed,               \* records the streaming pass has pulled
    rows_written,           \* row dicts handed to writer.writerow
    csv_file,
    tsv_file,
    json_file,              \* <<>> when absent, else <<document>>
    opened,                 \* output files opened for writing by this run
    verified_lines,
    twin                    \* the output files of a second invocation that
                            \* meets the same responses after another leftover,
                            \* at its own reading of the clock

\* the state of one run of app.py
app_vars ==
    <<config, org, pc, fault, exit_code, calls, probe_outcome, listed,
      pbe_custom_fields,
      product2_custom_fields, include_currency, pricebooks_map, header_cols,
      total_entry_rows, consumed, rows_written, csv_file, tsv_file, json_file,
      opened, verified_lines, twin>>

vars == <<app_vars, runner>>

Init ==
    /\ config \in Configs
    /\ org \in {"structured", "text"}
    /\ org = "text" =>
          /\ require_env(config.env) = <<>>
          /\ config.INCLUDE_PRODUCT2_CUSTOM_FIELDS
    /\ \E prior \in PriorRuns :
          /\ org = "text" => prior = "none"
          /\ csv_file = IF prior = "none" THEN NoFile ELSE StaleCsv
          /\ tsv_file = IF prior = "none" THEN NoFile ELSE StaleTsv
          /\ json_file = IF prior = "none" THEN <<>> ELSE <<StaleDoc>>
          /\ twin = IF prior = "none"
                    THEN [csv_file |-> StaleCsv, tsv_file |-> StaleTsv,
                          json_file |-> <<StaleDoc>>]
                    ELSE [csv_file |-> NoFile, tsv_file |-> NoFile,
                          json_file |-> <<>>]
    /\ pc = "login"
    /\ fault = "none"
    /\ exit_code = -1
    /\ calls = <<>>
    /\ probe_outcome = [kind |-> "none", msg |-> <<>>]
    /\ listed = <<>>
    /\ pbe_custom_fields = <<>>
    /\ product2_custom_fields = <<>>
    /\ include_currency = FALSE
    /\ pricebooks_map = <<>>
    /\ header_cols = <<>>
    /\ total_entry_rows = 0
    /\ consumed = <<>>
    /\ rows_written = <<>>
    /\ opened = {}
    /\ verified_lines = 0
    /\ runner = RunnerIdle

Call(op, arg) == [op |-> op, arg |-> arg]

\* main() goes on to position p
Step(p) == pc' = p /\ fault' = fault /\ exit_code' = exit_code

\* an exception leaves main(); __main__ prints it and exits with status 1
Abort(kind) == pc' = "failed" /\ fault' = kind /\ exit_code' = 1

\* login_salesforce: the credentials are checked before the service is
\* contacted; a failed authentication is raised again as a RuntimeError
Login ==
    /\ pc = "login"
    /\ \/ /\ require_env(config.env) # <<>>
          /\ Abort("RuntimeError")
          /\ calls' = calls
       \/ /\ require_env(config.env) = <<>>
          /\ calls' = Append(calls, Call("login", config.env[<<"SF_USERNAME">>].s))
          /\ \/ Step("discover_pbe")
             \/ /\ org = "structured"
                /\ \E f \in LoginFaults :
                      Abort(IF f = "SalesforceAuthenticationFailed"
                            THEN "RuntimeError" ELSE f)
    /\ UNCHANGED <<runner, twin, config, org, probe_outcome, listed, pbe_custom_fields, product2_custom_fields,
                   include_currency, pricebooks_map, header_cols,
                   total_entry_rows, consumed, rows_written, csv_file,
                   tsv_file, json_file, opened, verified_lines>>

\* pbe_custom_fields = discover_custom_fields(sf, "PricebookEntry")
DiscoverPbe ==
    /\ pc = "discover_pbe"
    /\ calls' = Append(calls, Call("describe", <<"PricebookEntry">>))
    /\ \/ \E desc \in PbeDescribes(org) :
             /\ pbe_custom_fields' = discover_custom_fields(desc)
             /\ Step("discover_product2")
       \/ \E f \in RemoteFaults(org) :
             /\ Abort(f)
             /\ pbe_custom_fields' = pbe_custom_fields
    /\ UNCHANGED <<runner, twin, config, org, probe_outcome, listed, product2_custom_fields, include_currency,
                   pricebooks_map, header_cols, total_entry_rows, consumed,
                   rows_written, csv_file, tsv_file, json_file, opened,
                   verified_lines>>

\* product2_custom_fields = [], discovered only when the toggle is on
DiscoverProduct2 ==
    /\ pc = "discover_product2"
    /\ \/ /\ ~config.INCLUDE_PRODUCT2_CUSTOM_FIELDS
          /\ product2_custom_fields' = <<>>
          /\ calls' = calls
          /\ Step("probe")
       \/ /\ config.INCLUDE_PRODUCT2_CUSTOM_FIELDS
          /\ calls' = Append(calls, Call("describe", <<"Product2">>))
          /\ \/ \E desc \in Product2Describes(org) :
                   /\ product2_custom_fields' = discover_custom_fields(desc)
                   /\ Step("probe")
             \/ \E f \in RemoteFaults(org) :
                   /\ Abort(f)
                   /\ product2_custom_fields' = <<>>
    /\ UNCHANGED <<runner, twin, config, org, probe_outcome, listed, pbe_custom_fields, include_currency,
                   pricebooks_map, header_cols, total_entry_rows, consumed,
                   rows_written, csv_file, tsv_file, json_file, opened,
                   verified_lines>>

ProbeQuery == <<"SELECT Id, CurrencyIsoCode FROM PricebookEntry LIMIT 1">>

\* include_currency = detect_multi_currency(sf)
Probe ==
    /\ pc = "probe"
    /\ calls' = Append(calls, Call("query", ProbeQuery))
    /\ \E outcome \in ProbeOutcomes(org) :
          LET res == detect_multi_currency(outcome)
          IN /\ probe_outcome' = outcome
             /\ IF res.raised
                THEN Abort(outcome.kind) /\ include_currency' = include_currency
                ELSE Step("preload") /\ include_currency' = res.value
    /\ UNCHANGED <<runner, twin, config, org, listed, pbe_custom_fields, product2_custom_fields,
                   pricebooks_map, header_cols, total_entry_rows, consumed,
                   rows_written, csv_file, tsv_file, json_file, opened,
                   verified_lines>>

\* the catalog listing is loaded into the index, catalogs without entries
\* included
PreloadPricebooks ==
    /\ pc = "preload"
    /\ calls' = Append(calls, Call("query_all_iter", build_all_pricebooks_soql))
    /\ \/ \E listing \in Listings(org) :
             /\ listed' = listing
             /\ pricebooks_map' = Preload(<<>>, listing)
             /\ Step("open_csv")
       \/ \E f \in RemoteFaults(org) :
             /\ Abort(f)
             /\ listed' = listed
             /\ pricebooks_map' = pricebooks_map
    /\ UNCHANGED <<runner, twin, config, org, probe_outcome, pbe_custom_fields, product2_custom_fields,
                   include_currency, header_cols, total_entry_rows, consumed,
                   rows_written, csv_file, tsv_file, json_file, opened,
                   verified_lines>>

pbe_soql ==
    build_flat_pbe_soql(include_currency, pbe_custom_fields,
                        product2_custom_fields, config.PRICEBOOK2_ID)

\* mutant of OpenCsv: the flat file is opened for appending
OpenCsvAppends ==
    /\ pc = "open_csv"
    /\ header_cols' = HeaderCols(include_currency,
                                 config.INCLUDE_PRODUCT2_CUSTOM_FIELDS,
                                 pbe_custom_fields, product2_custom_fields)
    /\ total_entry_rows' = 0
    /\ opened' = opened \cup {"csv"}
    /\ csv_file' = [exists |-> TRUE, open |-> TRUE,
                    text |-> csv_file.text \o WriteRow(header_cols', CsvWriterDialect)]
    /\ twin' = [twin EXCEPT !.csv_file =
                  [exists |-> TRUE, open |-> TRUE,
                   text |-> twin.csv_file.text \o WriteRow(header_cols', CsvWriterDialect)]]
    /\ Step("stream")
    /\ UNCHANGED <<runner, config, org, probe_outcome, listed, calls, pbe_custom_fields,
                   product2_custom_fields, include_currency, pricebooks_map,
                   consumed, rows_written, tsv_file, json_file, verified_lines>>

\* the header is computed, the flat file opened for writing (truncated)
\* and the header row written
OpenCsv ==
    /\ pc = "open_csv"
    /\ header_cols' = HeaderCols(include_currency,
                                 config.INCLUDE_PRODUCT2_CUSTOM_FIELDS,
                                 pbe_custom_fields, product2_custom_fields)
    /\ total_entry_rows' = 0
    /\ opened' = opened \cup {"csv"}
    /\ csv_file' = [exists |-> TRUE, open |-> TRUE,
                    text |-> WriteRow(header_cols', CsvWriterDialect)]
    /\ Step("stream")
    /\ twin' = [twin EXCEPT !.csv_file = csv_file']
    /\ UNCHANGED <<runner, config, org, probe_outcome, listed, calls, pbe_custom_fields,
                   product2_custom_fields, include_currency, pricebooks_map,
                   consumed, rows_written, tsv_file, json_file, verified_lines>>

\* the joined query is sent when the first record is pulled
PullCalls ==
    IF consumed = <<>> THEN Append(calls, Call("query_all_iter", pbe_soql))
    ELSE calls

\* mutant of IndexRecord: the Entry is appended only when the Catalog was
\* already in the index
IndexRecordSkipsNewCatalog(m, r, entry) ==
    LET pb_id == ParentId(r)
    IN IF pb_id \in MapKeys(m) THEN MapAppendEntry(m, pb_id, entry)
       ELSE MapSet(m, pb_id, EmbeddedCatalog(r, pb_id, ParentName(r)))

\* mutant of IndexRecord: the attributes of the parent Catalog are taken
\* from every record again
IndexRecordRefreshesCatalog(m, r, entry) ==
    LET pb_id == ParentId(r)
        fresh == EmbeddedCatalog(r, pb_id, ParentName(r))
        kept == IF pb_id \in MapKeys(m) THEN MapGet(m, pb_id).Entries ELSE <<>>
    IN MapAppendEntry(MapSet(m, pb_id, [fresh EXCEPT !.Entries = kept]), pb_id, entry)

\* the index after one record: the parent Catalog is created on first
\* sight and the record's Entry appended to it
IndexRecord(m, r, entry) ==
    LET pb_id == ParentId(r)
        seen == IF pb_id \in MapKeys(m) THEN m
                ELSE MapSet(m, pb_id, EmbeddedCatalog(r, pb_id, ParentName(r)))
    IN MapAppendEntry(seen, pb_id, entry)

\* one iteration of the streaming pass: count the record, extend the
\* index, write the flat row
StreamRecord ==
    /\ pc = "stream"
    /\ MoreRecords(org, Len(consumed))
    /\ \E r \in RecordChoices(org, Len(consumed) + 1, config.PRICEBOOK2_ID) :
          LET include_product2 == config.INCLUDE_PRODUCT2_CUSTOM_FIELDS
              entry == BuildEntry(r, include_currency, include_product2,
                                  pbe_custom_fields, product2_custom_fields)
              row == BuildRow(entry, ParentId(r), ParentName(r),
                              include_currency, include_product2,
                              pbe_custom_fields, product2_custom_fields)
          IN /\ consumed' = Append(consumed, r)
             /\ total_entry_rows' = total_entry_rows + 1
             /\ pricebooks_map' = IndexRecord(pricebooks_map, r, entry)
             /\ rows_written' = Append(rows_written, row)
             /\ csv_file' = [csv_file EXCEPT
                               !.text = @ \o WriteRow(RowCells(row, header_cols),
                                                      CsvWriterDialect)]
             /\ twin' = [twin EXCEPT
                           !.csv_file.text = @ \o WriteRow(RowCells(row, header_cols),
                                                           CsvWriterDialect)]
    /\ calls' = PullCalls
    /\ Step("stream")
    /\ UNCHANGED <<runner, config, org, probe_outcome, listed, pbe_custom_fields, product2_custom_fields,
                   include_currency, header_cols, tsv_file, json_file, opened,
                   verified_lines>>

\* mutant of StreamFault: the partial flat file is removed on the way out
StreamFaultCleansUp ==
    /\ pc = "stream"
    /\ \E f \in RemoteFaults(org) : Abort(f)
    /\ calls' = PullCalls
    /\ csv_file' = NoFile
    /\ twin' = [twin EXCEPT !.csv_file = NoFile]
    /\ UNCHANGED <<runner, config, org, probe_outcome, listed, pbe_custom_fields,
                   product2_custom_fields, include_currency, pricebooks_map,
                   header_cols, total_entry_rows, consumed, rows_written,
                   tsv_file, json_file, opened, verified_lines>>

\* the record source raises while the pass pulls the next record: the
\* with block closes the flat file as it is and the fault leaves main()
StreamFault ==
    /\ pc = "stream"
    /\ \E f \in RemoteFaults(org) : Abort(f)
    /\ calls' = PullCalls
    /\ csv_file' = [csv_file EXCEPT !.open = FALSE]
    /\ twin' = [twin EXCEPT !.csv_file.open = FALSE]
    /\ UNCHANGED <<runner, config, org, probe_outcome, listed, pbe_custom_fields, product2_custom_fields,
                   include_currency, pricebooks_map, header_cols,
                   total_entry_rows, consumed, rows_written, tsv_file,
                   json_file, opened, verified_lines>>

\* the record source is exhausted: the flat file is closed
StreamEnd ==
    /\ pc = "stream"
    /\ calls' = PullCalls
    /\ csv_file' = [csv_file EXCEPT !.open = FALSE]
    /\ Step("tsv")
    /\ twin' = [twin EXCEPT !.csv_file.open = FALSE]
    /\ UNCHANGED <<runner, config, org, probe_outcome, listed, pbe_custom_fields, product2_custom_fields,
                   include_currency, pricebooks_map, header_cols,
                   total_entry_rows, consumed, rows_written, tsv_file,
                   json_file, opened, verified_lines>>

\* the rows csv.reader(fin) yields for the flat file
CsvRowsRead == ReadRows(csv_file.text, CsvReaderDialect)

\* the flat file is read back and every row written tab-delimited
WriteTsv ==
    /\ pc = "tsv"
    /\ opened' = opened \cup {"tsv"}
    /\ tsv_file' = [exists |-> TRUE, open |-> FALSE,
                    text |-> WriteRows(CsvRowsRead, TsvWriterDialect)]
    /\ Step("verify")
    /\ twin' = [twin EXCEPT !.tsv_file =
                 [exists |-> TRUE, open |-> FALSE,
                  text |-> WriteRows(ReadRows(twin.csv_file.text, CsvReaderDialect),
                                     TsvWriterDialect)]]
    /\ UNCHANGED <<runner, config, org, probe_outcome, listed, calls, pbe_custom_fields,
                   product2_custom_fields, include_currency, pricebooks_map,
                   header_cols, total_entry_rows, consumed, rows_written,
                   csv_file, json_file, verified_lines>>

\* the rows of the flat file are counted
VerifyCsv ==
    /\ pc = "verify"
    /\ verified_lines' = Len(CsvRowsRead)
    /\ Step("json")
    /\ UNCHANGED <<runner, twin, config, org, probe_outcome, listed, calls, pbe_custom_fields,
                   product2_custom_fields, include_currency, pricebooks_map,
                   header_cols, total_entry_rows, consumed, rows_written,
                   csv_file, tsv_file, json_file, opened>>

\* the index is sorted and the document written; main() returns
WriteJson ==
    /\ pc = "json"
    /\ \E now \in Clocks :
          json_file' = <<BuildOutput(now, pricebooks_map, include_currency,
                                     pbe_custom_fields, product2_custom_fields)>>
    /\ opened' = opened \cup {"json"}
    /\ pc' = "done"
    /\ fault' = fault
    /\ exit_code' = 0
    /\ \E now \in Clocks :
          twin' = [twin EXCEPT !.json_file =
                     <<BuildOutput(now, pricebooks_map, include_currency,
                                   pbe_custom_fields, product2_custom_fields)>>]
    /\ UNCHANGED <<runner, config, org, probe_outcome, listed, calls, pbe_custom_fields,
                   product2_custom_fields, include_currency, pricebooks_map,
                   header_cols, total_entry_rows, consumed, rows_written,
                   csv_file, tsv_file, verified_lines>>

Next ==
    \/ Login
    \/ DiscoverPbe
    \/ DiscoverProduct2
    \/ Probe
    \/ PreloadPricebooks
    \/ OpenCsv
    \/ StreamRecord
    \/ StreamFault
    \/ StreamEnd
    \/ WriteTsv
    \/ VerifyCsv
    \/ WriteJson

Spec == Init /\ [][Next]_vars

(* ------------------------------- one cycle ----------------------------- *)
\* no run of app.py is modelled step by step while the runner is
AppAtRest ==
    /\ config = [env |-> Env(Str(<<"secret">>)),
                 INCLUDE_PRODUCT2_CUSTOM_FIELDS |-> TRUE, PRICEBOOK2_ID |-> None]
    /\ org = "text"
    /\ pc = "login"
    /\ fault = "none"
    /\ exit_code = -1
    /\ calls = <<>>
    /\ probe_outcome = [kind |-> "none", msg |-> <<>>]
    /\ listed = <<>>
    /\ pbe_custom_fields = <<>>
    /\ product2_custom_fields = <<>>
    /\ include_currency = FALSE
    /\ pricebooks_map = <<>>
    /\ header_cols = <<>>
    /\ total_entry_rows = 0
    /\ consumed = <<>>
    /\ rows_written = <<>>
    /\ csv_file = NoFile
    /\ tsv_file = NoFile
    /\ json_file = <<>>
    /\ opened = {}
    /\ verified_lines = 0
    /\ twin = [csv_file |-> StaleCsv, tsv_file |-> StaleTsv, json_file |-> <<StaleDoc>>]

CycleInit ==
    /\ AppAtRest
    /\ \E raw \in ScriptLists, dir \in ScriptDirs, doc \in {"absent", "stale"} :
          runner = [RunnerIdle EXCEPT !.pc = "start", !.scripts_list = raw,
                                      !.on_disk = dir, !.document = doc]

\* logger.<level>(...) about a script or about the cycle
Logged(log, level, what, name) ==
    Append(log, [level |-> level, what |-> what, name |-> name])

\* the script the loop is at
CurrentScript == runner.script_names[runner.idx + 1]

\* run_one_cycle up to the loop: the list is parsed; an empty list is an
\* error and ends the cycle, otherwise old logs are archived
StartCycle ==
    /\ runner.pc = "start"
    /\ LET script_names == parse_scripts_list(runner.scripts_list)
       IN IF script_names = <<>>
          THEN runner' = [runner EXCEPT
                  !.pc = "finished",
                  !.log = Logged(@, "error", "nothing to run", <<>>)]
          ELSE runner' = [runner EXCEPT
                  !.pc = "loop",
                  !.script_names = script_names,
                  !.idx = 0,
                  !.log = Logged(@, "info", "cycle starting", <<>>)]
    /\ UNCHANGED app_vars

\* run_script returned rc to the loop: a non-zero rc is a warning, and the
\* loop goes on to the next script
Returned(r, name, rc) ==
    [r EXCEPT
        !.pc = "loop",
        !.idx = @ + 1,
        !.returned = Append(@, [name |-> name, rc |-> rc]),
        !.log = IF rc # 0 THEN Logged(r.log, "warning", "exited", name) ELSE r.log]

\* run_script for a script file that does not exist
ScriptNotFound ==
    /\ runner.pc = "loop"
    /\ runner.idx < Len(runner.script_names)
    /\ CurrentScript \notin runner.on_disk
    /\ runner' = Returned([runner EXCEPT
                              !.log = Logged(@, "error", "not found", CurrentScript)],
                          CurrentScript, -1)
    /\ UNCHANGED app_vars

\* run_script: subprocess.Popen raises
PopenFails ==
    /\ runner.pc = "loop"
    /\ runner.idx < Len(runner.script_names)
    /\ CurrentScript \in runner.on_disk
    /\ runner' = Returned([runner EXCEPT
                              !.log = Logged(Logged(@, "info", "starting", CurrentScript),
                                             "error", "failed to start", CurrentScript)],
                          CurrentScript, -1)
    /\ UNCHANGED app_vars

\* run_script: the child process is started and its output is read; the
\* child is one that ends by itself or one that never does
PopenStarts ==
    /\ runner.pc = "loop"
    /\ runner.idx < Len(runner.script_names)
    /\ CurrentScript \in runner.on_disk
    /\ \E fate \in {"ends", "hangs"} :
       runner' = [runner EXCEPT
                     !.pc = "reading",
                     !.children = @ \cup {runner.idx},
                     !.child = fate,
                     !.lines = 0,
                     !.started = Append(@, CurrentScript),
                     !.log = Logged(@, "info", "starting", CurrentScript)]
    /\ UNCHANGED app_vars

\* for line in proc.stdout: the line is logged
ReadLine ==
    /\ runner.pc = "reading"
    /\ runner.lines < MaxOutput
    /\ runner' = [runner EXCEPT
                     !.lines = @ + 1,
                     !.log = Logged(@, "info", "output", CurrentScript)]
    /\ UNCHANGED app_vars

\* reading the output raises: the error is logged and the child awaited;
\* the pipe is neither read to its end nor closed, so a child with more
\* output than the pipe holds is stopped in its write
ReadError ==
    /\ runner.pc = "reading"
    /\ \E fate \in {runner.child, "blocked"} :
       runner' = [runner EXCEPT
                     !.pc = "waiting",
                     !.child = fate,
                     !.log = Logged(@, "error", "reading output", CurrentScript)]
    /\ UNCHANGED app_vars

\* the output of the child ends
OutputEnds ==
    /\ runner.pc = "reading"
    /\ runner' = [runner EXCEPT !.pc = "waiting"]
    /\ UNCHANGED app_vars


\* how the running child can end: its exit status, the hierarchical document
\* after it and what the remap step read, if the child is the remap step
ChildOutcomes(r) ==
    LET name == r.script_names[r.idx + 1]
    IN IF name = AppScript
       THEN {[rc |-> o.rc,
              document |-> IF o.wrote THEN "fresh" ELSE r.document,
              remapped |-> r.remapped] : o \in AppOutcomes}
       ELSE IF name = DistributerScript
       THEN {[rc |-> DistributerOutcome(r.document).rc,
              document |-> r.document,
              remapped |-> Append(r.remapped, DistributerOutcome(r.document).read)]}
       ELSE {[rc |-> rc, document |-> r.document, remapped |-> r.remapped] :
                rc \in {0, 1}}

\* mutant of ChildExits: a child that exits non-zero ends the cycle
ChildExitsStopsOnFailure ==
    /\ runner.pc = "waiting"
    /\ runner.child = "ends"
    /\ \E o \in ChildOutcomes(runner) :
          LET ended == Returned([runner EXCEPT
                                    !.children = @ \ {runner.idx},
                                    !.child = "none",
                                    !.document = o.document,
                                    !.remapped = o.remapped,
                                    !.log = Logged(@, "info", "finished", CurrentScript)],
                                CurrentScript, o.rc)
          IN runner' = IF o.rc # 0 THEN [ended EXCEPT !.pc = "finished"] ELSE ended
    /\ UNCHANGED app_vars

\* proc.wait() returns: the child has ended; its exit status is logged and
\* returned to the loop. The wait has no timeout: it returns only for a
\* child that ends
ChildExits ==
    /\ runner.pc = "waiting"
    /\ runner.child = "ends"
    /\ \E o \in ChildOutcomes(runner) :
          runner' = Returned([runner EXCEPT
                                 !.children = @ \ {runner.idx},
                                 !.child = "none",
                                 !.document = o.document,
                                 !.remapped = o.remapped,
                                 !.log = Logged(@, "info", "finished", CurrentScript)],
                             CurrentScript, o.rc)
    /\ UNCHANGED app_vars

\* the loop is through the list: the cycle is finished
FinishCycle ==
    /\ runner.pc = "loop"
    /\ runner.idx = Len(runner.script_names)
    /\ runner' = [runner EXCEPT
                     !.pc = "finished",
                     !.log = Logged(@, "info", "cycle finished", <<>>)]
    /\ UNCHANGED app_vars

CycleNext ==
    \/ StartCycle
    \/ ScriptNotFound
    \/ PopenFails
    \/ PopenStarts
    \/ ReadLine
    \/ ReadError
    \/ OutputEnds
    \/ ChildExits
    \/ FinishCycle

CycleSpec == CycleInit /\ [][CycleNext]_vars

\* the steps the runner takes by itself keep coming, the loop is
\* sequential; of the steps that wait for the child (a line of output, its
\* end, the end of the child) only those of a child that ends by itself:
\* nothing makes a child end that hangs or that is stopped in a write,
\* run_script waits for it without a timeout
CycleLive ==
    /\ CycleSpec
    /\ WF_vars(StartCycle \/ ScriptNotFound \/ PopenFails \/ PopenStarts
                \/ FinishCycle)
    /\ WF_vars((ReadLine \/ ReadError \/ OutputEnds \/ ChildExits)
                /\ runner.child = "ends")

(* ------------------------------ properties ----------------------------- *)
\* the Catalogs of the index, in insertion order
Catalogs == MapValues(pricebooks_map)

\* the places <<c, j>> of the nested Entries of a list of Catalogs
EntryPlaces(pricebooks) ==
    {p \in (1..Len(pricebooks)) \X (1..MaxRecords) :
        p[2] <= Len(pricebooks[p[1]].Entries)}

\* the run has opened the flat file
PassStarted == "csv" \in opened

\* the cells the writer was handed for the i-th record
CellsWritten(i) == RowCells(rows_written[i], header_cols)

\* C1: after every record of the pass the rows handed to the flat file, the
\* records consumed, the counter and the sum of the entry-list lengths over
\* the index are the same number; the rows counted in the finished file
\* are that number plus the header, and the document's total_entry_count
\* is that number.
C1_RowCountEqualsRecords ==
    /\ Len(rows_written) = Len(consumed)
    /\ total_entry_rows = Len(consumed)
    /\ SumEntries(Catalogs) = Len(consumed)
    /\ PassStarted /\ ~csv_file.open /\ pc # "failed" =>
          csv_file.text =
            WriteRows(<<header_cols>> \o [i \in 1..Len(consumed) |-> CellsWritten(i)],
                      CsvWriterDialect)
    /\ pc \in {"json", "done"} => verified_lines = Len(consumed) + 1
    /\ pc = "done" =>
          /\ json_file[1].total_entry_count = Len(consumed)
          /\ SumEntries(json_file[1].pricebooks) = Len(consumed)

\* a finished run that consumed a full stream into two Catalogs
C1_Witness ==
    /\ pc = "done"
    /\ Len(consumed) = MaxRecords
    /\ Cardinality({c \in 1..Len(Catalogs) : Catalogs[c].Entries # <<>>}) >= 2

\* the nested value a flat column shows
NestedValue(entry, col) ==
    LET product == entry[<<"Product">>].d
    IN CASE col = <<"Entry.Id">> -> entry[<<"Id">>]
         [] col = <<"Entry.Pricebook2Id">> -> entry[<<"Pricebook2Id">>]
         [] col = <<"Entry.Product2Id">> -> entry[<<"Product2Id">>]
         [] col = <<"Entry.UnitPrice">> -> entry[<<"UnitPrice">>]
         [] col = <<"Entry.IsActive">> -> entry[<<"IsActive">>]
         [] col = <<"Entry.UseStandardPrice">> -> entry[<<"UseStandardPrice">>]
         [] col = <<"Entry.CreatedDate">> -> entry[<<"CreatedDate">>]
         [] col = <<"Entry.LastModifiedDate">> -> entry[<<"LastModifiedDate">>]
         [] col = EntryCurrencyCol -> entry[CurrencyIsoCode]
         [] col = <<"Product.Id">> -> product[<<"Id">>]
         [] col = <<"Product.Name">> -> product[<<"Name">>]
         [] col = <<"Product.ProductCode">> -> product[<<"ProductCode">>]
         [] col = <<"Product.Family">> -> product[<<"Family">>]
         [] col = <<"Product.IsActive">> -> product[<<"IsActive">>]
         [] col = <<"Product.Description">> -> product[<<"Description">>]
         [] Head(col) = <<"Entry.">>[1] -> entry[Tail(col)]
         [] OTHER -> product[Tail(col)]

\* every cell of the i-th flat row but the two parent cells shows the value
\* the nested Entry holds
SameValues(i, entry) ==
    \A n \in 1..Len(header_cols) :
        header_cols[n] \notin {<<"Pricebook.Id">>, <<"Pricebook.Name">>} =>
            CellsWritten(i)[n] = CellText(NestedValue(entry, header_cols[n]))

\* the two representations hold the same entries: each flat row's entry
\* identity is nested exactly once, under the Catalog of the row's parent
\* identity, with the same values; each nested Entry has a flat row
SameEntries(pricebooks) ==
    /\ \A i \in 1..Len(rows_written) :
          LET places == {p \in EntryPlaces(pricebooks) :
                            pricebooks[p[1]].Entries[p[2]][<<"Id">>]
                              = rows_written[i][<<"Entry.Id">>]}
          IN /\ Cardinality(places) = 1
             /\ \A p \in places :
                   /\ pricebooks[p[1]].Id = rows_written[i][<<"Pricebook.Id">>]
                   /\ SameValues(i, pricebooks[p[1]].Entries[p[2]])
    /\ \A p \in EntryPlaces(pricebooks) :
          \E i \in 1..Len(rows_written) :
              rows_written[i][<<"Entry.Id">>]
                = pricebooks[p[1]].Entries[p[2]][<<"Id">>]

\* C2: every entry identity of a flat row is nested exactly once, under the
\* Catalog whose identity is the row's parent identity, with the same
\* entry, product, currency and custom values, and every nested Entry has
\* a flat row; in the index after each record and in the written document.
C2_SameEntriesInBothOutputs ==
    /\ PassStarted => SameEntries(Catalogs)
    /\ pc = "done" => SameEntries(json_file[1].pricebooks)

\* a finished run whose rows went to two Catalogs and carry custom columns
C2_Witness ==
    /\ pc = "done"
    /\ Len(rows_written) = MaxRecords
    /\ pbe_custom_fields # <<>>
    /\ product2_custom_fields # <<>>
    /\ \E i, j \in 1..Len(rows_written) :
          rows_written[i][<<"Pricebook.Id">>] # rows_written[j][<<"Pricebook.Id">>]

\* the rows handed to the flat file's writer: the header, then one per record
RowsWritten ==
    <<header_cols>> \o [i \in 1..Len(rows_written) |-> CellsWritten(i)]

\* the flat file is complete and closed
CsvComplete == pc \in {"tsv", "verify", "json", "done"}

\* C3: every cell value written to the flat file (ordinary characters,
\* comma, quote, tab, newline, backslash) is the value the Derived-Format
\* Emitter's reader parses back from the file.
C3_FlatFileRoundTrips == CsvComplete => CsvRowsRead = RowsWritten

\* a tab-delimited reader for the derived file
TsvReaderDialect ==
    [delimiter |-> "\t", quotechar |-> "\"", escapechar |-> NoChar,
     doublequote |-> TRUE]

\* the rows a tab-delimited parser yields for the derived file
TsvRowsRead == ReadRows(tsv_file.text, TsvReaderDialect)

\* C4: the derived file read with a tab-delimited parser has the rows of
\* the comma-delimited file: as many, in the same order, cell for cell.
C4_DerivedFileRoundTrips == pc = "done" => TsvRowsRead = CsvRowsRead


\* the nested Entries of the index
NestedEntries ==
    {Catalogs[p[1]].Entries[p[2]] : p \in EntryPlaces(Catalogs)}

\* the joined queries sent to the record source
JoinedQueries ==
    {calls[i].arg : i \in {j \in 1..Len(calls) :
        /\ calls[j].op = "query_all_iter"
        /\ " FROM PricebookEntry" \in Range(calls[j].arg)}}

\* the position of a column in the header, 0 when it is not there
ColumnAt(col) ==
    IF col \in Range(header_cols)
    THEN CHOOSE n \in 1..Len(header_cols) : header_cols[n] = col
    ELSE 0

\* C5: without currency support the currency column is in no header, no
\* flat row, no joined query and no nested Entry; with it the header has
\* the column and every flat row and nested Entry carries it, empty or not.
C5_CurrencyColumnFollowsProbe ==
    PassStarted =>
        /\ include_currency = (probe_outcome.kind = "ok")
        /\ (EntryCurrencyCol \in Range(header_cols)) = include_currency
        /\ \A i \in 1..Len(rows_written) :
              /\ (EntryCurrencyCol \in DOMAIN rows_written[i]) = include_currency
              /\ Len(CellsWritten(i)) = Len(header_cols)
              /\ include_currency =>
                    CellsWritten(i)[ColumnAt(EntryCurrencyCol)]
                      = CellText(Get(consumed[i], CurrencyIsoCode, None))
        /\ \A e \in NestedEntries : (CurrencyIsoCode \in DOMAIN e) = include_currency
        /\ \A q \in JoinedQueries :
              ("CurrencyIsoCode" \in Range(q)) = include_currency
        /\ pc = "done" =>
              /\ json_file[1].multi_currency = include_currency
              /\ \A p \in EntryPlaces(json_file[1].pricebooks) :
                    (CurrencyIsoCode \in
                       DOMAIN json_file[1].pricebooks[p[1]].Entries[p[2]])
                    = include_currency

\* a finished run with currency support and a record without a currency
\* value, its cell written empty
C5_Witness ==
    /\ pc = "done"
    /\ include_currency
    /\ JoinedQueries # {}
    /\ \E i \in 1..Len(consumed) :
          /\ consumed[i][CurrencyIsoCode] = None
          /\ CellsWritten(i)[ColumnAt(EntryCurrencyCol)] = <<>>

\* the columns of the header after the core columns and the currency column
TrailingCols ==
    SubSeq(header_cols, Len(header_cols) - Len(pbe_custom_fields)
                          - Len(product2_custom_fields) + 1, Len(header_cols))

\* C6: the header is the fixed core columns (with the currency column when
\* supported) followed by the entry custom columns and then the product
\* custom columns, each list in discovery order; every row has a value for
\* every custom column and no cell outside the header.
C6_CustomColumnsTrailInDiscoveryOrder ==
    PassStarted =>
        /\ Len(header_cols) = Len(BaseCols) + (IF include_currency THEN 1 ELSE 0)
                                + Len(pbe_custom_fields) + Len(product2_custom_fields)
        /\ SelectSeq(header_cols, LAMBDA col : col \in Range(BaseCols)) = BaseCols
        /\ \A i \in 1..Len(pbe_custom_fields) :
              TrailingCols[i] = <<"Entry.">> \o pbe_custom_fields[i]
        /\ \A j \in 1..Len(product2_custom_fields) :
              TrailingCols[Len(pbe_custom_fields) + j]
                = <<"Product.">> \o product2_custom_fields[j]
        /\ \A i \in 1..Len(rows_written) :
              /\ DOMAIN rows_written[i] = Range(header_cols)
              /\ Len(CellsWritten(i)) = Len(header_cols)
              /\ \A f \in Range(pbe_custom_fields) :
                    CellsWritten(i)[ColumnAt(<<"Entry.">> \o f)]
                      = CellText(Get(consumed[i], f, None))
              /\ \A f \in Range(product2_custom_fields) :
                    CellsWritten(i)[ColumnAt(<<"Product.">> \o f)]
                      = CellText(safe_rel(consumed[i], <<"Product2">>, f, None))
        /\ SubSeq(csv_file.text, 1, Len(WriteRow(header_cols, CsvWriterDialect)))
              = WriteRow(header_cols, CsvWriterDialect)
        /\ pc = "done" =>
              LET rows == CsvRowsRead
              IN /\ rows[1] = header_cols
                 /\ \A i \in 1..Len(rows) : Len(rows[i]) = Len(header_cols)

\* a finished run with two entry custom columns and a product custom
\* column, a row with a custom value and a row without
C6_Witness ==
    /\ pc = "done"
    /\ Len(pbe_custom_fields) = 2
    /\ Len(product2_custom_fields) = 1
    /\ \E i, j \in 1..Len(consumed) :
          /\ CellsWritten(i)[Len(header_cols)] # <<>>
          /\ CellsWritten(j)[Len(header_cols)] = <<>>

\* the key the claim orders the document by: standard first, then the
\* name without case, no name counting as the empty text
OrderKey(pb) ==
    << IF pb.IsStandard = Bool(TRUE) THEN 0 ELSE 1,
       IF pb.Name.k = "str" THEN Lower(pb.Name.s) ELSE <<>> >>

\* the names of a list of Catalogs
Names(pricebooks) == [c \in 1..Len(pricebooks) |-> pricebooks[c].Name]

\* the place of an entry identity in the stream
StreamPlace(id) ==
    CHOOSE i \in 1..Len(consumed) : consumed[i][<<"Id">>] = id

\* C7: the document's Catalogs are the index's values, each once, ordered
\* by (standard first, name without case); [Zeta, alpha, Base-standard] is
\* written as [Base, alpha, Zeta]; each Catalog's entries are in stream order.
C7_DocumentSortedByKey ==
    pc = "done" =>
        LET doc == json_file[1].pricebooks
        IN /\ Len(doc) = Len(Catalogs)
           /\ json_file[1].pricebook_count = Len(Catalogs)
           /\ Range(doc) = Range(Catalogs)
           /\ \A c \in 1..(Len(doc) - 1) :
                 KeyLeq(OrderKey(doc[c]), OrderKey(doc[c + 1]))
           /\ Names(Catalogs) = <<Str(NameZeta), Str(NameAlpha), Str(NameBase)>> =>
                 Names(doc) = <<Str(NameBase), Str(NameAlpha), Str(NameZeta)>>
           /\ \A c \in 1..Len(doc) : \A j, k \in 1..Len(doc[c].Entries) :
                 j < k => StreamPlace(doc[c].Entries[j][<<"Id">>])
                            < StreamPlace(doc[c].Entries[k][<<"Id">>])

\* a finished run over the index [Zeta, alpha, Base] with two entries under
\* one Catalog
C7_Witness ==
    /\ pc = "done"
    /\ Names(Catalogs) = <<Str(NameZeta), Str(NameAlpha), Str(NameBase)>>
    /\ \E c \in 1..Len(Catalogs) : Len(Catalogs[c].Entries) >= 2

\* a record without the embedded parent sub-object whose flat parent
\* identity is present
MissingParent(r) ==
    /\ Get(r, <<"Pricebook2">>, None).k # "dict"
    /\ Truthy(Get(r, <<"Pricebook2Id">>, None))

\* the Catalogs of the index with an identity
CatalogsOf(id) == {c \in 1..Len(Catalogs) : Catalogs[c].Id = id}

\* the optional attributes of a Catalog are all empty
EmptyAttributes(pb) ==
    /\ pb.Name = None
    /\ pb.IsActive = None
    /\ pb.IsStandard = None
    /\ pb.Description = None
    /\ pb.CreatedDate = None
    /\ pb.LastModifiedDate = None

\* the Catalog holds the Entry of a record
HoldsEntryOf(pb, r) ==
    \E j \in 1..Len(pb.Entries) : pb.Entries[j][<<"Id">>] = r[<<"Id">>]

\* the i-th record is the first sight of its parent identity: the listing
\* does not have it and no earlier record has it as parent
FirstSight(i) ==
    /\ \A k \in 1..Len(listed) :
          listed[k][<<"Id">>] # consumed[i][<<"Pricebook2Id">>]
    /\ \A j \in 1..(i - 1) : ParentId(consumed[j]) # consumed[i][<<"Pricebook2Id">>]

\* the listing row of an identity, as the preload made it a Catalog
ListedAs(id) ==
    PreloadedCatalog(listed[CHOOSE k \in 1..Len(listed) : listed[k][<<"Id">>] = id])

\* C8 as stated: a record without parent sub-object but with the flat parent
\* identity leaves exactly one Catalog of that identity, with empty
\* optional attributes, holding the record's Entry.
C8_MissingParentGivesEmptyCatalog ==
    \A i \in 1..Len(consumed) :
        MissingParent(consumed[i]) =>
            /\ Cardinality(CatalogsOf(consumed[i][<<"Pricebook2Id">>])) = 1
            /\ \A c \in CatalogsOf(consumed[i][<<"Pricebook2Id">>]) :
                  /\ EmptyAttributes(Catalogs[c])
                  /\ HoldsEntryOf(Catalogs[c], consumed[i])

\* C8 amended: such a record does not fail the run and leaves exactly one
\* Catalog of the flat parent identity, holding the record's Entry; the
\* Catalog has empty optional attributes when the record is the first sight
\* of the identity, and a listed Catalog keeps the attributes of the listing.
C8_MissingParentFallsBackToFlatId ==
    \A i \in 1..Len(consumed) :
        MissingParent(consumed[i]) =>
            /\ pc = "failed" => fault \in RemoteFaults(org)
            /\ Cardinality(CatalogsOf(consumed[i][<<"Pricebook2Id">>])) = 1
            /\ \A c \in CatalogsOf(consumed[i][<<"Pricebook2Id">>]) :
                  /\ HoldsEntryOf(Catalogs[c], consumed[i])
                  /\ FirstSight(i) => EmptyAttributes(Catalogs[c])
                  /\ (\E k \in 1..Len(listed) : listed[k][<<"Id">>] = Catalogs[c].Id) =>
                        [Catalogs[c] EXCEPT !.Entries = <<>>]
                          = ListedAs(Catalogs[c].Id)

\* a finished run with such a record as first sight of its parent, and one
\* with such a record under a listed Catalog that has a name
C8_Witness ==
    /\ pc = "done"
    /\ exit_code = 0
    /\ \E i \in 1..Len(consumed) :
          /\ MissingParent(consumed[i])
          /\ FirstSight(i)
          /\ \E c \in CatalogsOf(consumed[i][<<"Pricebook2Id">>]) :
                EmptyAttributes(Catalogs[c])

\* the probe query has been answered
Probed == probe_outcome.kind # "none"

\* the run ended with the fault of the probe query
ProbeRaised ==
    /\ pc = "failed"
    /\ exit_code = 1
    /\ calls[Len(calls)] = Call("query", ProbeQuery)
    /\ fault = probe_outcome.kind

\* the probe met the fault that tells the currency column is absent
ColumnAbsentFault ==
    /\ probe_outcome.kind = "SalesforceMalformedRequest"
    /\ \E i \in 1..Len(probe_outcome.msg) :
          probe_outcome.msg[i] = NoSuchColumnText[1]

\* C9: the probe gives true when the query succeeds, false only on a
\* malformed-query fault whose message has the 'no such column' text, and
\* raises every other fault again.
C9_ProbeFalseOnlyOnColumnAbsent ==
    Probed =>
        /\ probe_outcome.kind = "ok" => include_currency /\ ~ProbeRaised
        /\ ColumnAbsentFault => ~include_currency /\ ~ProbeRaised
        /\ probe_outcome.kind # "ok" /\ ~ColumnAbsentFault => ProbeRaised
        /\ ~ProbeRaised /\ ~include_currency => ColumnAbsentFault

\* the probe met a malformed-query fault with another message and the run
\* ended with it
C9_Witness ==
    /\ Probed
    /\ probe_outcome.kind = "SalesforceMalformedRequest"
    /\ ~ColumnAbsentFault
    /\ ProbeRaised

\* the pass ended with a malformed-query fault of the record source
StreamFaulted ==
    /\ pc = "failed"
    /\ PassStarted
    /\ fault = "SalesforceMalformedRequest"

\* C10: a malformed-query fault after k records ends the run with a
\* non-zero exit; the flat file stays, closed, with the header and the k
\* rows written so far, and the run writes neither the derived file nor
\* the document.
C10_StreamFaultLeavesTruncatedFlatFile ==
    StreamFaulted =>
        /\ exit_code = 1
        /\ csv_file.exists
        /\ ~csv_file.open
        /\ Len(rows_written) = Len(consumed)
        /\ csv_file.text = WriteRows(RowsWritten, CsvWriterDialect)
        /\ Len(CsvRowsRead) = Len(consumed) + 1
        /\ opened = {"csv"}
        /\ tsv_file \in {NoFile, StaleTsv}
        /\ json_file \in {<<>>, <<StaleDoc>>}

\* the fault came after one record, with files of an earlier run around
C10_Witness ==
    /\ StreamFaulted
    /\ Len(consumed) = 1
    /\ tsv_file = StaleTsv
    /\ Len(CsvRowsRead) = 2

\* a required credential is empty
MissingCredential == \E i \in 1..Len(RequiredEnv) : ~Truthy(config.env[RequiredEnv[i]])

\* the last remote call of the run, if any
LastCall == IF calls = <<>> THEN Call("none", <<>>) ELSE calls[Len(calls)]

\* the run ended in a failure that precedes the streaming pass: a missing
\* credential, a failed login, a failed discovery or a probe fault
PreStreamFailure ==
    /\ pc = "failed"
    /\ \/ MissingCredential
       \/ calls # <<>> /\ LastCall.op \in {"login", "describe"}
       \/ ProbeRaised

\* the output files are as the earlier run, if any, left them
FilesUntouched ==
    /\ opened = {}
    /\ \/ csv_file = NoFile /\ tsv_file = NoFile /\ json_file = <<>>
       \/ csv_file = StaleCsv /\ tsv_file = StaleTsv /\ json_file = <<StaleDoc>>

\* C11: every failure before the streaming pass (missing credential, login,
\* discovery on either entity, probe fault other than 'column absent') ends
\* the run with a non-zero exit before any output file is opened, truncated
\* or written, and a missing credential is found before the remote service
\* is contacted.
C11_PreStreamFailureTouchesNoFile ==
    /\ MissingCredential => calls = <<>> /\ pc \in {"login", "failed"}
    /\ PreStreamFailure =>
          /\ exit_code = 1
          /\ FilesUntouched
          /\ header_cols = <<>>
          /\ rows_written = <<>>
          /\ MissingCredential => fault = "RuntimeError"

\* the discovery on the product entity failed while files of an earlier
\* run were around
C11_Witness ==
    /\ PreStreamFailure
    /\ LastCall = Call("describe", <<"Product2">>)
    /\ csv_file = StaleCsv
    /\ fault = "ConnectionError"

RECURSIVE SplitAt(_, _)
\* the pieces of a text between the occurrences of a separator
SplitAt(text, sep) ==
    IF sep \notin Range(text) THEN <<text>>
    ELSE LET i == CHOOSE n \in 1..Len(text) :
                    text[n] = sep /\ \A k \in 1..(n - 1) : text[k] # sep
         IN <<SubSeq(text, 1, i - 1)>> \o SplitAt(SubSeq(text, i + 1, Len(text)), sep)

\* the parts of a query text: what precedes the field list, the fields,
\* the FROM clause and what follows it
QueryParts(q) ==
    LET from == CHOOSE n \in 1..Len(q) :
                    q[n] \in {" FROM PricebookEntry", " FROM Pricebook2"}
    IN [select |-> q[1],
        fields |-> SplitAt(SubSeq(q, 2, from - 1), ", "),
        from |-> q[from],
        filter |-> SubSeq(q, from + 1, Len(q))]

\* the prefixes that qualify a name under an entity
Qualifiers == {"Product2.", "Pricebook2.", "PricebookEntry.", "Entry.", "Product."}

\* a name without its qualifier
Unqualified(name) == IF name[1] \in Qualifiers THEN Tail(name) ELSE name

\* the fields of a joined query that follow the core fields and the
\* currency column
CustomQueryFields(q) ==
    LET fields == QueryParts(q).fields
        fixed == Len(CoreQueryFields) + (IF include_currency THEN 1 ELSE 0)
    IN SubSeq(fields, fixed + 1, Len(fields))

\* the catalog queries sent to the record source
CatalogQueries ==
    {calls[i].arg : i \in {j \in 1..Len(calls) :
        /\ calls[j].op = "query_all_iter"
        /\ " FROM Pricebook2" \in Range(calls[j].arg)}}

\* C13 as stated: every custom name is dot-qualified in the query text as
\* it is in the output columns.
C13_CustomNamesQualifiedInQuery ==
    \A q \in JoinedQueries :
        \A i \in 1..Len(CustomQueryFields(q)) :
            CustomQueryFields(q)[i][1] \in Qualifiers

\* C13: the joined query selects the core fields, the currency column iff
\* the capability flag is true, then the entry custom names (bare, in
\* discovery order), then the product custom names (qualified Product2., in
\* discovery order), the same names in the same order as the trailing
\* output columns; the parent filter is there iff a single catalog is
\* configured, and the catalog query has the fixed fields and no filter.
C13_JoinedQueryFieldList ==
    /\ \A q \in JoinedQueries :
          LET parts == QueryParts(q)
              custom == CustomQueryFields(q)
              ncore == Len(CoreQueryFields)
              nentry == Len(pbe_custom_fields)
          IN /\ parts.select = "SELECT "
             /\ parts.from = " FROM PricebookEntry"
             /\ SubSeq(parts.fields, 1, ncore) = CoreQueryFields
             /\ include_currency <=>
                   /\ Len(parts.fields) > ncore
                   /\ parts.fields[ncore + 1] = <<"CurrencyIsoCode">>
             /\ <<"CurrencyIsoCode">> \in Range(parts.fields) => include_currency
             /\ SubSeq(custom, 1, nentry) = pbe_custom_fields
             /\ SubSeq(custom, nentry + 1, Len(custom)) =
                   [i \in 1..Len(product2_custom_fields) |->
                       <<"Product2.">> \o product2_custom_fields[i]]
             /\ [i \in 1..Len(custom) |-> Unqualified(custom[i])] =
                   [i \in 1..Len(TrailingCols) |-> Unqualified(TrailingCols[i])]
             /\ IF config.PRICEBOOK2_ID = None
                THEN parts.filter = <<>>
                ELSE parts.filter =
                        <<" WHERE Pricebook2Id = '">> \o config.PRICEBOOK2_ID.s \o <<"'">>
    /\ \A q \in CatalogQueries :
          /\ QueryParts(q).fields = PricebookFields
          /\ QueryParts(q).filter = <<>>
          /\ QueryParts(q).select = "SELECT "

\* a filtered joined query with the currency column and an entry custom
\* name has been sent
C13_Witness ==
    \E q \in JoinedQueries :
        /\ include_currency
        /\ config.PRICEBOOK2_ID # None
        /\ pbe_custom_fields # <<>>
        /\ QueryParts(q).filter # <<>>

\* the identities seen so far: in the listing or as the parent of a record
SeenIds ==
    {listed[i][<<"Id">>] : i \in 1..Len(listed)}
    \cup {ParentId(consumed[i]) : i \in 1..Len(consumed)}

\* a Catalog without its entry list
Attributes(c) == [c EXCEPT !.Entries = <<>>]

\* the index holds one Catalog per identity seen, under its own identity
OneCatalogPerIdentity ==
    /\ MapKeys(pricebooks_map) = SeenIds
    /\ Cardinality(MapKeys(pricebooks_map)) = Len(pricebooks_map)
    /\ \A i \in 1..Len(pricebooks_map) :
          pricebooks_map[i].val.Id = pricebooks_map[i].key

\* the Entry the pass builds for a record
EntryOf(r) ==
    BuildEntry(r, include_currency, config.INCLUDE_PRODUCT2_CUSTOM_FIELDS,
               pbe_custom_fields, product2_custom_fields)

\* a step that processes one record keeps every Catalog in place with its
\* attributes, appends the record's Entry to the parent's list and changes
\* no other list; the parent is the only Catalog the step may create
RecordStepFrame ==
    Len(consumed') = Len(consumed) + 1 =>
        LET r == consumed'[Len(consumed')]
            m == pricebooks_map
            n == pricebooks_map'
            at == MapIndex(n, ParentId(r))
        IN /\ Len(n) \in {Len(m), Len(m) + 1}
           /\ \A i \in 1..Len(m) :
                 /\ n[i].key = m[i].key
                 /\ Attributes(n[i].val) = Attributes(m[i].val)
                 /\ i # at => n[i].val.Entries = m[i].val.Entries
           /\ Len(n) > Len(m) <=> ParentId(r) \notin MapKeys(m)
           /\ Len(n) > Len(m) => at = Len(n)
           /\ n[at].val.Entries =
                 Append(IF at <= Len(m) THEN m[at].val.Entries ELSE <<>>, EntryOf(r))

\* a step after the preload removes no Catalog and changes no attribute
CatalogsKept ==
    pc \notin {"login", "discover_pbe", "discover_product2", "probe", "preload"} =>
        /\ Len(pricebooks_map') >= Len(pricebooks_map)
        /\ \A i \in 1..Len(pricebooks_map) :
              /\ pricebooks_map'[i].key = pricebooks_map[i].key
              /\ Attributes(pricebooks_map'[i].val) = Attributes(pricebooks_map[i].val)
              /\ Len(consumed') = Len(consumed) =>
                    pricebooks_map'[i] = pricebooks_map[i]

\* every listed Catalog is in the document, without entries when no record
\* named it
ListedCatalogsInDocument ==
    pc = "done" =>
        \A i \in 1..Len(listed) :
            \E c \in 1..Len(json_file[1].pricebooks) :
                LET pb == json_file[1].pricebooks[c]
                IN /\ pb.Id = listed[i][<<"Id">>]
                   /\ Attributes(pb) = PreloadedCatalog(listed[i])
                   /\ pb.Entries =
                         SelectSeq([k \in 1..Len(consumed) |-> EntryOf(consumed[k])],
                                   LAMBDA e : e[<<"Pricebook2Id">>] = pb.Id)

\* C14: the index holds exactly one Catalog per identity seen so far; a
\* Catalog is created on first sight, never removed and its attributes never
\* change; one record appends its Entry to the resolved parent's list and
\* touches no other Catalog; listed Catalogs without entries stay in the
\* document.
C14_CatalogLifecycle ==
    /\ [](OneCatalogPerIdentity /\ ListedCatalogsInDocument)
    /\ [][RecordStepFrame /\ CatalogsKept]_vars

\* the run is complete; a record came with a parent name other than the
\* listed one, another Catalog was created by a record, and a listed Catalog
\* has no entries
C14_Witness ==
    /\ pc = "done"
    /\ \E i \in 1..Len(consumed) :
          LET name == safe_rel(consumed[i], <<"Pricebook2">>, <<"Name">>, None)
          IN /\ name # None
             /\ name # MapGet(pricebooks_map, ParentId(consumed[i])).Name
    /\ Len(pricebooks_map) > Len(listed)
    /\ \E c \in 1..Len(Catalogs) : Catalogs[c].Entries = <<>>

\* the Catalogs of the document under which the Entry of the i-th record
\* is nested
NestingCatalogs(i) ==
    LET pricebooks == json_file[1].pricebooks
    IN {pricebooks[c] : c \in {d \in 1..Len(pricebooks) :
            \E j \in 1..Len(pricebooks[d].Entries) :
                pricebooks[d].Entries[j][<<"Id">>] = consumed[i][<<"Id">>]}}

\* C15: in a complete run the Pricebook.Id and Pricebook.Name cells of every
\* flat row equal the Id and Name of the Catalog under which the row's Entry
\* is nested in the document.
C15_RowParentMatchesCatalog ==
    pc = "done" =>
        \A i \in 1..Len(rows_written) :
            \A pb \in NestingCatalogs(i) :
                /\ CellText(rows_written[i][<<"Pricebook.Id">>]) = CellText(pb.Id)
                /\ CellText(rows_written[i][<<"Pricebook.Name">>]) = CellText(pb.Name)

\* the part of C15 that the run keeps: the parent identity of a row is the
\* identity of the one Catalog that nests its Entry
C15_RowParentIdMatchesCatalog ==
    pc = "done" =>
        \A i \in 1..Len(rows_written) :
            /\ Cardinality(NestingCatalogs(i)) = 1
            /\ \A pb \in NestingCatalogs(i) :
                  CellText(rows_written[i][<<"Pricebook.Id">>]) = CellText(pb.Id)

\* the invocation is over
RunOver == pc \in {"done", "failed"}

\* the three output files of this invocation
Files == [csv_file |-> csv_file, tsv_file |-> tsv_file, json_file |-> json_file]

\* the files an earlier run left, where there was one
StaleFiles == [csv_file |-> StaleCsv, tsv_file |-> StaleTsv, json_file |-> <<StaleDoc>>]

\* the file still is what an earlier run wrote, here or in the second
\* invocation
HoldsPriorData(f) == Files[f] = StaleFiles[f] \/ twin[f] = StaleFiles[f]

\* the name under which opened records a file
OpenedAs(f) ==
    CASE f = "csv_file" -> "csv" [] f = "tsv_file" -> "tsv" [] OTHER -> "json"

\* a hierarchical document file without its time stamp, which is the
\* reading of the clock of the invocation that wrote it
Unstamped(file) ==
    IF file = <<>> THEN file ELSE <<[file[1] EXCEPT !.exported_at = <<>>]>>

\* the file has the same contents after both invocations, the time stamp
\* of the document apart
SameContents(f) ==
    IF f = "json_file" THEN Unstamped(Files[f]) = Unstamped(twin[f])
    ELSE Files[f] = twin[f]

\* C12 as stated: after an invocation, successful or ended by a fault, the
\* emitted files are the same whatever files an earlier run left, and none
\* holds data of a prior run.
C12_FilesIndependentOfLeftovers ==
    RunOver =>
        /\ \A f \in DOMAIN Files : SameContents(f)
        /\ \A f \in DOMAIN Files : ~HoldsPriorData(f)

\* C12: after a successful invocation the three files are the same
\* whatever an earlier run left, apart from the time stamp of the document,
\* which is the reading of each invocation's own clock, and none holds data
\* of a prior run; after an invocation ended by a fault this is so exactly
\* for the files the run had opened, and every other file is as the earlier
\* run left it.
C12_OpenedFilesIndependentOfLeftovers ==
    /\ pc = "done" =>
          /\ opened = {"csv", "tsv", "json"}
          /\ \A f \in DOMAIN Files : SameContents(f)
          /\ json_file[1].exported_at = twin.json_file[1].exported_at
                => Files = twin
          /\ \A f \in DOMAIN Files : ~HoldsPriorData(f)
          /\ csv_file.text = WriteRows(RowsWritten, CsvWriterDialect)
          /\ tsv_file.text = WriteRows(CsvRowsRead, TsvWriterDialect)
          /\ \A file \in {json_file, twin.json_file} : \E now \in Clocks :
                file = <<BuildOutput(now, pricebooks_map, include_currency,
                                     pbe_custom_fields, product2_custom_fields)>>
    /\ RunOver =>
          \A f \in DOMAIN Files :
              IF OpenedAs(f) \in opened
              THEN SameContents(f) /\ ~HoldsPriorData(f)
              ELSE /\ ~SameContents(f)
                   /\ Files[f] \in {StaleFiles[f], IF f = "json_file" THEN <<>> ELSE NoFile}

\* a successful invocation that started from files of an earlier run, and
\* the second one at another reading of the clock
C12_Witness ==
    /\ pc = "done"
    /\ twin.json_file # json_file
    /\ SameContents("json_file")
    /\ Len(consumed) > 0
    /\ "tsv" \in opened
    /\ \E i \in 1..Len(calls) : calls[i].op = "login"
    /\ csv_file # StaleCsv

\* the names of the scripts run_script has returned for, in order
ReturnedNames == [i \in 1..Len(runner.returned) |-> runner.returned[i].name]

\* the cycle went through its list
CycleFinished == runner.pc = "finished" /\ runner.script_names # <<>>

\* a script of the list is reported in the log with a level
LoggedAbout(level, name) ==
    \E i \in 1..Len(runner.log) :
        runner.log[i].level = level /\ runner.log[i].name = name

\* the extraction script ran in this cycle and failed
ExtractionFailed ==
    \E i \in 1..Len(runner.returned) :
        runner.returned[i] = [name |-> AppScript, rc |-> 1]

\* the calls of run_script that started a child and awaited its end
AwaitedChildren == SelectSeq(runner.returned, LAMBDA ret : ret.rc # -1)

\* the scripts are taken strictly in list order, one child at a time
InListOrder ==
    /\ Cardinality(runner.children) <= 1
    /\ runner.children \subseteq {runner.idx}
    /\ runner.children # {} <=> runner.pc \in {"reading", "waiting"}
    /\ Len(runner.returned) = runner.idx
    /\ ReturnedNames = SubSeq(runner.script_names, 1, runner.idx)
    /\ runner.started =
          [i \in 1..Len(AwaitedChildren) |-> AwaitedChildren[i].name]
          \o (IF runner.children = {} THEN <<>>
              ELSE <<runner.script_names[runner.idx + 1]>>)
    /\ \A i \in 1..Len(runner.started) : runner.started[i] \in runner.on_disk

\* a script that did not end with status 0 left a message in the log and
\* nothing else; a finished cycle has gone through every script of the list
FailuresOnlyLogged ==
    /\ \A i \in 1..Len(runner.returned) :
          /\ runner.returned[i].rc # 0 =>
                LoggedAbout("warning", runner.returned[i].name)
          /\ runner.returned[i].name \notin runner.on_disk =>
                /\ runner.returned[i].rc = -1
                /\ LoggedAbout("error", runner.returned[i].name)
    /\ CycleFinished => ReturnedNames = runner.script_names

\* in a finished cycle run_script was called for the remap step although
\* the extraction before it had failed; where its child started, it read the
\* document an earlier cycle left, or found none
RemapRunsAfterFailedExtraction ==
    /\ CycleFinished
    /\ ExtractionFailed
    /\ runner.script_names =
          parse_scripts_list(<<"app.py", " ", "distributer.py">>)
    /\ DistributerScript \in runner.on_disk
    => /\ runner.returned[2].name = DistributerScript
       /\ runner.document # "fresh"
       /\ runner.returned[2].rc # -1 =>
             /\ runner.started = <<AppScript, DistributerScript>>
             /\ runner.remapped =
                   <<IF runner.document = "stale" THEN "stale" ELSE "nothing">>
       /\ runner.returned[2].rc = -1 =>
             /\ runner.remapped = <<>>
             /\ LoggedAbout("error", DistributerScript)

\* run_script is waiting for a child that will never end
ChildNeverEnds ==
    runner.pc \in {"reading", "waiting"} /\ runner.child # "ends"

\* C16: run_one_cycle starts the scripts strictly in list order, one child
\* at a time, each awaited before the next; a script that is missing, does
\* not start or exits non-zero only leaves log messages, and the loop
\* always goes on from it to start the next script or to finish the cycle,
\* so the remap step runs even when the extraction failed and wrote no new
\* document. The cycle reaches its end unless it waits for a child that
\* never ends.
C16_CycleRunsEveryScriptInOrder ==
    /\ [](InListOrder /\ FailuresOnlyLogged /\ RemapRunsAfterFailedExtraction)
    /\ (runner.pc \in {"start", "loop"}) ~> (runner.pc \in {"reading", "finished"})
    /\ <>(runner.pc = "finished" \/ ChildNeverEnds)

\* the extraction failed, the remap step ran after it on the document of an
\* earlier cycle, and the cycle finished
C16_Witness ==
    /\ CycleFinished
    /\ ExtractionFailed
    /\ runner.started = <<AppScript, DistributerScript>>
    /\ runner.remapped = <<"stale">>
    /\ runner.returned[2] = [name |-> DistributerScript, rc |-> 0]

====
